---- MODULE Spec2Model ----
(***************************************************************************)
(* Checkpoint store, batch extraction loop and retry policy of the MOH     *)
(* polyclinic ETL pipeline (src/data_processing/data_extractor.py), and    *)
(* the orchestrator that drives them (src/data_processing/etl_pipeline.py),*)
(* the data validator (src/data_processing/data_validator.py) and the jobs *)
(* of the scheduler (scripts/run_scheduler.py).                            *)
(***************************************************************************)
EXTENDS Integers, Sequences, FiniteSets, TLC

(***************************************************************************)
(* Bounds of the model.                                                    *)
(***************************************************************************)
MaxClock == 2        \* instants 0..MaxClock of the wall clock
MaxCalls == 2        \* extract_data calls made on the extractor
MaxRuns  == 1        \* run_full_pipeline executions on the pipeline
MaxRows  == 3        \* upstream row counts 0..MaxRows
MaxBatch == 2        \* configured batch sizes 1..MaxBatch
TicksPerSecond == 2  \* clock ticks (scaled microseconds) per second
MaxLen == 2          \* rows 0..MaxLen of a dataset handed to validate_all
MaxJobs == 2         \* jobs the scheduler runs on its pipeline
SecondsPerDay == 2
MaxValidations == 2  \* validate_all calls made on the validator

(***************************************************************************)
(* Program constants.                                                      *)
(***************************************************************************)
max_retries == 3     \* @retry_on_failure(max_retries=3, ...)
delay == 5           \* @retry_on_failure(..., delay=5)
lookback_days == 30  \* timedelta(days=30)

(***************************************************************************)
(* Configuration: database.yml data_sources and queries.yml templates.     *)
(* fact1, fact2 are incremental sources, ref is reference data, notmpl has *)
(* no query template, noquery has a template without any query key, and    *)
(* unknown is not a configured source.                                     *)
(***************************************************************************)
SourceNames == {"fact1", "fact2", "ref", "notmpl", "noquery", "unknown"}

data_sources ==
  [s \in {"fact1", "fact2", "ref", "notmpl", "noquery"} |->
     [incremental |-> s # "ref", primary_key |-> "id"]]

queries ==
  [s \in {"fact1", "fact2", "ref", "noquery"} |->
     CASE s = "fact1"   -> {"incremental_query", "full_query"}
       [] s = "fact2"   -> {"full_query"}
       [] s = "ref"     -> {"query"}
       [] s = "noquery" -> {"description"}]

incremental_enabled == TRUE   \* extraction_config['incremental']['enabled']

\* quality_checks: the row-count minimum, and the relationships of the
\* referential-integrity section
min_rows == 2
relationships ==
  <<[child |-> "fact1", parent |-> "ref", foreign_key |-> "id"]>>

\* quality_checks of the deployed configuration: no critical column
DefaultConfig ==
  [row_count |-> [enabled |-> TRUE, min_rows |-> min_rows],
   null_checks |-> [enabled |-> TRUE, critical_columns |-> <<>>,
                    max_null_percentage |-> 50],
   date_validation |-> [enabled |-> TRUE],
   duplicate_checks |-> [enabled |-> TRUE, key_columns |-> <<>>],
   referential_integrity |-> [enabled |-> TRUE,
                              relationships |-> relationships]]

\* the sources that have a table upstream
TableSources == {"fact1", "fact2", "ref"}

VARIABLES
  clock,        \* wall clock, in ticks
  batch_size,   \* extraction_config['batch_size']
  checkpoints,  \* DataExtractor.checkpoints: source -> ISO string
  file,         \* the checkpoint file on disk
  committed,    \* the mapping last written completely to the file
  pc,           \* position of the running extract_data call
  source,       \* argument source
  inc_arg,      \* argument incremental: "None", "True" or "False"
  upstream,     \* number of rows the upstream holds during this call
  cp0,          \* checkpoints when the call started
  file0,        \* file when the call started
  incremental,  \* local incremental after resolution
  query,        \* local query (the template key selected, "" if none)
  all_data,     \* local all_data: the list of pages appended
  batch_offset, \* local batch_offset
  fetched,      \* pages requested in the current attempt: [offset, rows]
  attempt,      \* wrapper's loop variable
  lastExc,      \* exception raised by the latest failed attempt of this call
  bodyRuns,     \* number of times the body was entered in this call
  slept,        \* time spent in time.sleep(delay) in this call
  partialFail,  \* some attempt of this call failed on a page after the first
  result,       \* value returned to the caller
  error,        \* exception propagated to the caller
  saved,        \* instant handed to _save_checkpoint in this call, or -1
  crashedIn,    \* position at which the process crashed, "" if it did not
  calls,        \* number of direct extract_data calls made so far
  everSaved,    \* sources in the file at construction or saved since
  ppc,          \* phase of the running run_full_pipeline, "p_idle" if none
  p_sources,    \* argument sources of the run
  p_incremental,\* argument incremental of the run
  p_stop,       \* argument stop_on_validation_failure of the run
  todo,         \* sources extract_all_sources has still to extract
  results,      \* local results of extract_all_sources
  extracted_data,     \* ETLPipeline.extracted_data
  validation_results, \* ETLPipeline.validation_results
  transformed_data,   \* local transformed_data of run_full_pipeline
  output_paths,       \* sources for which run_load wrote output files
  execution_log,      \* ETLPipeline.execution_log
  status,       \* status of the summary of the latest run, "none" if none
  runs,         \* number of run_full_pipeline executions started
  runCp0,       \* checkpoints when the run started
  runFile0,     \* file when the run started
  run_id,       \* ETLPipeline.run_id
  summaries,    \* results/metrics/etl_summary_<run_id>.json: run_id -> summary
  summaryOf,    \* run number -> run_id under which its summary was written
  log0,         \* length of execution_log when the run started
  quality_config,  \* DataValidator.quality_config
  v_source,        \* argument source of the latest validate_all call
  v_data,          \* argument data of the latest validate_all call
  v_reference,     \* argument reference_data of the latest validate_all call
  v_results,       \* DataValidator.validation_results
  v_raised,        \* the latest validate_all call raised
  v_critical,      \* value has_critical_failures returned since, or "none"
  v_calls,         \* number of direct validate_all calls made so far
  v_summary,       \* what get_validation_summary returned since, if called
  v_prior,         \* the list held a critical failure when the call began
  start_arg,    \* argument start_date of the call: <<>> or <<day>>
  end_arg,      \* argument end_date of the call: <<>> or <<day>>
  start_date,   \* local start_date of extract_data after the date range
  end_date,     \* local end_date of extract_data after the date range
  p_dates,      \* arguments start_date and end_date of the run
  handed,       \* run_validation: the validate_all calls of the latest
                \* execution, each with its source and reference_data
  checkpoints2, \* self.checkpoints of a second extractor, of another
                \* process, that uses the same checkpoint file
  pc2,          \* position of the second extractor
  job,          \* the scheduled job in progress, "none" if none
  alerts        \* alerts send_alert was given by the latest job

storeVars == <<checkpoints, file, committed>>
callVars == <<source, inc_arg, upstream, cp0, file0, start_arg, end_arg>>
bodyVars == <<incremental, query, all_data, batch_offset, fetched,
              start_date, end_date>>
retryVars == <<attempt, lastExc, bodyRuns, slept, partialFail>>
outVars == <<result, error, saved>>
ghostVars == <<crashedIn, calls, everSaved>>
extractorVars == <<storeVars, pc, callVars, bodyVars, retryVars, outVars,
                   ghostVars>>
runArgs == <<p_sources, p_incremental, p_stop, runs, runCp0, runFile0,
             p_dates>>
runData == <<extracted_data, validation_results, transformed_data,
             output_paths, execution_log, status>>
summaryVars == <<run_id, summaries, summaryOf, log0>>
validatorVars == <<quality_config, v_source, v_data, v_reference, v_results,
                   v_raised, v_critical, v_calls, v_summary, v_prior>>
alertVars == <<job, alerts>>
peerVars == <<checkpoints2, pc2>>
auxVars == <<summaryVars, validatorVars, alertVars, handed,
            peerVars>>
pipeVars == <<ppc, todo, results, runArgs, runData, auxVars>>
vars == <<clock, batch_size, extractorVars, pipeVars>>

(***************************************************************************)
(* Date-times and their ISO-8601 text.                                     *)
(***************************************************************************)
\* the date-time of an instant: seconds and microseconds
DateTime(t) == [sec |-> t \div TicksPerSecond, micro |-> t % TicksPerSecond]

\* datetime.now()
now == DateTime(clock)

\* a formatter that always drops the microsecond field
isoformat_seconds(dt) == <<dt.sec>>

\* datetime.isoformat(): the microsecond field is omitted when it is zero
isoformat(dt) ==
  IF dt.micro = 0 THEN <<dt.sec>> ELSE <<dt.sec, dt.micro>>

\* datetime.fromisoformat(): a missing microsecond field reads as zero
fromisoformat(str) ==
  [sec |-> str[1], micro |-> IF Len(str) >= 2 THEN str[2] ELSE 0]

\* datetime.strftime('%Y%m%d_%H%M%S'): the microseconds are dropped
strftime(dt) == dt.sec

\* dt.strftime('%Y-%m-%d'): the day of a date-time, as a day number
strftime_date(dt) == dt.sec \div SecondsPerDay

\* an optional date that is not given
NoDate == <<>>

\* ordering of date-times; None is below every date-time
DtLeq(a, b) == a.sec < b.sec \/ (a.sec = b.sec /\ a.micro <= b.micro)

None == [sec |-> -1, micro |-> 0]

\* DataExtractor.get_last_extraction_date, on a given checkpoint mapping
LastExtraction(cps, s) ==
  IF s \in DOMAIN cps THEN fromisoformat(cps[s]) ELSE None

\* DataExtractor.get_last_extraction_date
get_last_extraction_date(s) == LastExtraction(checkpoints, s)

(***************************************************************************)
(* The checkpoint file: missing, valid JSON holding a mapping, or          *)
(* truncated (opened for writing, contents not yet written).               *)
(***************************************************************************)
EmptyMap == [x \in {} |-> <<>>]
MissingFile == [st |-> "missing", data |-> EmptyMap]
TruncatedFile == [st |-> "truncated", data |-> EmptyMap]
ValidFile(m) == [st |-> "valid", data |-> m]

\* DataExtractor._load_checkpoints, on a missing or a readable file
_load_checkpoints == IF file.st = "valid" THEN file.data ELSE EmptyMap

(***************************************************************************)
(* Datasets and the upstream: a table of rows 1..upstream with the single  *)
(* column id, paged by LIMIT/OFFSET.                                       *)
(***************************************************************************)
Min(a, b) == IF a <= b THEN a ELSE b

\* pd.DataFrame(): no columns, no rows
EmptyFrame == [columns |-> {}, rows |-> <<>>]

\* the result set of a query on the table
Frame(rows) == [columns |-> {"id"}, rows |-> rows]

\* pd.read_sql of the paged query at an offset
PageAt(R, B, offset) ==
  [i \in 1..(IF offset >= R THEN 0 ELSE Min(B, R - offset)) |-> offset + i]

\* a combination that returns the last page only
concat_last(pages) == IF pages = <<>> THEN <<>> ELSE pages[Len(pages)]

RECURSIVE concat(_)
\* pd.concat(all_data, ignore_index=True)
concat(pages) ==
  IF pages = <<>> THEN <<>> ELSE Head(pages) \o concat(Tail(pages))

NoError == [kind |-> "none", at |-> 0]
ConfigErrors == {"unknown_source", "no_template", "no_query"}

(***************************************************************************)
(* Initial state: a freshly constructed extractor, no checkpoint file yet. *)
(***************************************************************************)
ExtractorInit ==
  /\ clock = 0
  /\ batch_size \in 1..MaxBatch
  /\ file = MissingFile /\ committed = EmptyMap
  /\ checkpoints = EmptyMap
  /\ pc = "idle"
  /\ source = "fact1" /\ inc_arg = "None" /\ upstream = 0
  /\ cp0 = EmptyMap /\ file0 = MissingFile
  /\ incremental = FALSE /\ query = ""
  /\ all_data = <<>> /\ batch_offset = 0 /\ fetched = <<>>
  /\ start_arg = NoDate /\ end_arg = NoDate
  /\ start_date = NoDate /\ end_date = NoDate
  /\ attempt = 0 /\ lastExc = NoError /\ bodyRuns = 0 /\ slept = 0
  /\ partialFail = FALSE
  /\ result = EmptyFrame /\ error = NoError /\ saved = -1
  /\ crashedIn = "" /\ calls = 0 /\ everSaved = {}

\* DataValidator.__init__ on the deployed configuration
ValidatorDefaults ==
  /\ quality_config = DefaultConfig
  /\ v_source = "fact1" /\ v_data = EmptyFrame /\ v_reference = EmptyMap
  /\ v_results = <<>> /\ v_raised = FALSE /\ v_critical = "none"
  /\ v_calls = 0 /\ v_summary = <<>> /\ v_prior = FALSE

\* ETLPipeline.__init__
PipelineInit ==
  /\ ppc = "p_idle" /\ todo = <<>> /\ results = EmptyMap
  /\ p_sources = <<>> /\ p_incremental = TRUE /\ p_stop = FALSE
  /\ extracted_data = EmptyMap /\ validation_results = EmptyMap
  /\ transformed_data = EmptyMap /\ output_paths = {}
  /\ execution_log = <<>> /\ status = "none"
  /\ runs = 0 /\ runCp0 = EmptyMap /\ runFile0 = MissingFile
  /\ run_id = strftime(now)
  /\ summaries = EmptyMap /\ summaryOf = EmptyMap /\ log0 = 0
  /\ p_dates = <<NoDate, NoDate>>
  /\ job = "none" /\ alerts = {}
  /\ handed = <<>>
  /\ checkpoints2 = EmptyMap /\ pc2 = "none"

Init == ExtractorInit /\ PipelineInit /\ ValidatorDefaults

(***************************************************************************)
(* The environment: time passes between calls and while a page is being    *)
(* fetched.  The clock is read only after the batch loop, so every reading *)
(* the code can make is reached.                                           *)
(***************************************************************************)
Tick ==
  /\ clock < MaxClock
  /\ pc \in {"idle", "returned", "raised", "loop"}
  /\ clock' = clock + 1
  /\ UNCHANGED <<batch_size, extractorVars, pipeVars>>

(***************************************************************************)
(* extract_data(source, incremental=...) is invoked: the wrapper of        *)
(* retry_on_failure starts its loop at attempt 0.                          *)
(***************************************************************************)
BeginCall(s, inc, R, start, end) ==
  /\ pc \in {"idle", "returned", "raised"}
  /\ pc' = "body"
  /\ source' = s /\ inc_arg' = inc /\ upstream' = R
  /\ start_arg' = start /\ end_arg' = end
  /\ start_date' = NoDate /\ end_date' = NoDate
  /\ cp0' = checkpoints /\ file0' = file
  /\ attempt' = 0 /\ lastExc' = NoError /\ bodyRuns' = 0 /\ slept' = 0
  /\ partialFail' = FALSE
  /\ result' = EmptyFrame /\ error' = NoError /\ saved' = -1
  /\ incremental' = FALSE /\ query' = ""
  /\ all_data' = <<>> /\ batch_offset' = 0 /\ fetched' = <<>>
  /\ UNCHANGED <<clock, batch_size, storeVars, crashedIn, everSaved>>

\* a retry test that is off by one
MayRetryOffByOne(a) == a < max_retries

\* "if attempt < max_retries - 1"
MayRetry(a) == a < max_retries - 1

\* retry_on_failure.wrapper, the except clause: sleep and run the body
\* again while attempts remain, otherwise re-raise the exception
Handle(kind) ==
  LET e == [kind |-> kind, at |-> attempt + 1] IN
  /\ lastExc' = e
  /\ IF MayRetry(attempt)
     THEN /\ slept' = slept + delay
          /\ attempt' = attempt + 1
          /\ pc' = "body"
          /\ UNCHANGED error
     ELSE /\ pc' = "raised"
          /\ error' = e
          /\ UNCHANGED <<slept, attempt>>

\* the incremental flag after "if incremental is None"
ResolveIncremental(s, inc) ==
  IF inc = "None"
  THEN data_sources[s].incremental /\ incremental_enabled
  ELSE inc = "True"

\* a selection that prefers the full query
SelectQueryFullFirst(tmpl, incr) ==
  IF "full_query" \in tmpl THEN "full_query"
  ELSE IF incr /\ "incremental_query" \in tmpl THEN "incremental_query"
  ELSE IF "query" \in tmpl THEN "query"
  ELSE ""

\* "Select appropriate query": the key of the template that is used
SelectQuery(tmpl, incr) ==
  IF incr /\ "incremental_query" \in tmpl THEN "incremental_query"
  ELSE IF "full_query" \in tmpl THEN "full_query"
  ELSE IF "query" \in tmpl THEN "query"
  ELSE ""

\* the error the body of extract_data raises before paging, "none" if none
ConfigError(s, inc) ==
  IF s \notin DOMAIN data_sources THEN "unknown_source"
  ELSE IF s \notin DOMAIN queries THEN "no_template"
  ELSE IF SelectQuery(queries[s], ResolveIncremental(s, inc)) = ""
       THEN "no_query"
  ELSE "none"

\* a batch loop that keeps the pages of the previous attempt
StartBatchesKeep ==
  /\ UNCHANGED all_data
  /\ batch_offset' = 0
  /\ fetched' = <<>>

\* "all_data = []" and "batch_offset = 0": the locals of a new invocation
StartBatches ==
  /\ all_data' = <<>>
  /\ batch_offset' = 0
  /\ fetched' = <<>>

\* a date range whose start is the checkpoint even when one is given
ResolveStartFromCheckpoint(s, incr, start) ==
  IF incr /\ get_last_extraction_date(s) # None
  THEN <<strftime_date(get_last_extraction_date(s))>>
  ELSE IF incr /\ start = NoDate THEN <<strftime_date(now) - lookback_days>>
  ELSE start

\* "Determine date range": start_date after "if incremental and not
\* start_date"
ResolveStart(s, incr, start) ==
  IF incr /\ start = NoDate
  THEN IF get_last_extraction_date(s) # None
       THEN <<strftime_date(get_last_extraction_date(s))>>
       ELSE <<strftime_date(now) - lookback_days>>
  ELSE start

\* "Determine date range": end_date after "if not end_date"
ResolveEnd(end) == IF end = NoDate THEN <<strftime_date(now)>> ELSE end

\* extract_data, from entry to the first iteration of the batch loop
Body ==
  /\ pc = "body"
  /\ bodyRuns' = bodyRuns + 1
  /\ StartBatches
  /\ IF ConfigError(source, inc_arg) # "none"
     THEN /\ Handle(ConfigError(source, inc_arg))
          /\ incremental' = FALSE /\ query' = ""
          /\ start_date' = NoDate /\ end_date' = NoDate
     ELSE /\ incremental' = ResolveIncremental(source, inc_arg)
          /\ start_date' = ResolveStart(
                              source, ResolveIncremental(source, inc_arg),
                              start_arg)
          /\ end_date' = ResolveEnd(end_arg)
          /\ query' = SelectQuery(queries[source],
                                  ResolveIncremental(source, inc_arg))
          /\ pc' = "loop"
          /\ UNCHANGED <<attempt, lastExc, slept, error>>
  /\ UNCHANGED <<pipeVars, clock, batch_size, storeVars, callVars,
                 partialFail, result, saved, ghostVars>>

\* a last-batch test that also stops on a full page
LastBatchLeq(df_batch, size) == Len(df_batch) <= size

\* "if len(df_batch) < batch_size: break"
LastBatch(df_batch, size) == Len(df_batch) < size

\* one iteration of "while True": the page is read and appended
Fetch ==
  /\ pc = "loop"
  /\ LET df_batch == PageAt(upstream, batch_size, batch_offset) IN
     /\ fetched' = Append(fetched, [offset |-> batch_offset,
                                    rows |-> df_batch])
     /\ IF df_batch = <<>>
        THEN /\ pc' = "combine"
             /\ UNCHANGED <<all_data, batch_offset>>
        ELSE /\ all_data' = Append(all_data, df_batch)
             /\ batch_offset' = batch_offset + batch_size
             /\ pc' = IF LastBatch(df_batch, batch_size) THEN "combine"
                                                         ELSE "loop"
  /\ UNCHANGED <<pipeVars, clock, batch_size, storeVars, callVars,
                 incremental, query, retryVars, outVars, ghostVars>>
  /\ UNCHANGED <<start_date, end_date>>

\* one iteration of "while True": get_connection or read_sql raises
FetchFails ==
  /\ pc = "loop"
  /\ fetched' = Append(fetched, [offset |-> batch_offset, rows |-> <<>>])
  /\ partialFail' = (partialFail \/ all_data # <<>>)
  /\ Handle("db_error")
  /\ UNCHANGED <<pipeVars, clock, batch_size, storeVars, callVars,
                 incremental, query, all_data, batch_offset, bodyRuns, result,
                 saved, ghostVars>>
  /\ UNCHANGED <<start_date, end_date>>

\* an assignment that keeps a checkpoint already present
SetCheckpointDefault(cps, s, dt) ==
  [x \in DOMAIN cps \cup {s} |->
     IF x \in DOMAIN cps THEN cps[x] ELSE isoformat(dt)]

\* self.checkpoints[source] = checkpoint_date.isoformat()
SetCheckpoint(cps, s, dt) ==
  [x \in DOMAIN cps \cup {s} |-> IF x = s THEN isoformat(dt) ELSE cps[x]]

\* a combination that saves the checkpoint of every extraction with rows
CombineAlwaysSaves ==
  /\ pc = "combine"
  /\ IF all_data # <<>>
     THEN /\ checkpoints' = SetCheckpoint(checkpoints, source, now)
          /\ saved' = clock
          /\ everSaved' = everSaved \cup {source}
          /\ pc' = "save_open"
          /\ UNCHANGED result
     ELSE /\ result' = EmptyFrame
          /\ pc' = "returned"
          /\ UNCHANGED <<checkpoints, saved, everSaved>>
  /\ UNCHANGED <<pipeVars, clock, batch_size, file, committed, callVars,
                 bodyVars, retryVars, error, crashedIn, calls>>

\* "Combine all batches": return the rows, entering _save_checkpoint first
\* when the extraction is incremental and returned rows
Combine ==
  /\ pc = "combine"
  /\ IF all_data # <<>>
     THEN IF incremental
          THEN /\ checkpoints' = SetCheckpoint(checkpoints, source, now)
               /\ saved' = clock
               /\ everSaved' = everSaved \cup {source}
               /\ pc' = "save_open"
               /\ UNCHANGED result
          ELSE /\ result' = Frame(concat(all_data))
               /\ pc' = "returned"
               /\ UNCHANGED <<checkpoints, saved, everSaved>>
     ELSE /\ result' = EmptyFrame
          /\ pc' = "returned"
          /\ UNCHANGED <<checkpoints, saved, everSaved>>
  /\ UNCHANGED <<pipeVars, clock, batch_size, file, committed, callVars,
                 bodyVars, retryVars, error, crashedIn, calls>>

\* _save_checkpoint: mkdir and open(checkpoint_path, 'w') truncate the file
SaveOpen ==
  /\ pc = "save_open"
  /\ file' = TruncatedFile
  /\ pc' = "save_dump"
  /\ UNCHANGED <<pipeVars, clock, batch_size, checkpoints, committed,
                 callVars, bodyVars, retryVars, outVars, ghostVars>>

\* _save_checkpoint: mkdir or open raises (the file is left as it was)
SaveOpenFails ==
  /\ pc = "save_open"
  /\ Handle("io_error")
  /\ UNCHANGED <<pipeVars, clock, batch_size, storeVars, callVars, bodyVars,
                 bodyRuns, partialFail, result, saved, ghostVars>>

\* _save_checkpoint: json.dump writes the whole mapping; extract_data
\* then returns df_final
SaveDump ==
  /\ pc = "save_dump"
  /\ file' = ValidFile(checkpoints)
  /\ committed' = checkpoints
  /\ result' = Frame(concat(all_data))
  /\ pc' = "returned"
  /\ UNCHANGED <<pipeVars, clock, batch_size, checkpoints, callVars, bodyVars,
                 retryVars, error, saved, ghostVars>>

\* _save_checkpoint: json.dump raises (the file stays truncated)
SaveDumpFails ==
  /\ pc = "save_dump"
  /\ Handle("io_error")
  /\ UNCHANGED <<pipeVars, clock, batch_size, storeVars, callVars, bodyVars,
                 bodyRuns, partialFail, result, saved, ghostVars>>

(***************************************************************************)
(* The process is killed; a new process constructs a new extractor.        *)
(***************************************************************************)
Crash ==
  /\ pc \notin {"crashed", "init_failed"}
  /\ crashedIn' = pc
  /\ pc' = "crashed"
  /\ checkpoints' = EmptyMap /\ everSaved' = {}
  /\ inc_arg' = "None" /\ upstream' = 0
  /\ cp0' = EmptyMap /\ file0' = MissingFile
  /\ start_arg' = NoDate /\ end_arg' = NoDate
  /\ start_date' = NoDate /\ end_date' = NoDate
  /\ attempt' = 0 /\ lastExc' = NoError /\ bodyRuns' = 0 /\ slept' = 0
  /\ partialFail' = FALSE
  /\ result' = EmptyFrame /\ error' = NoError /\ saved' = -1
  /\ incremental' = FALSE /\ query' = ""
  /\ all_data' = <<>> /\ batch_offset' = 0 /\ fetched' = <<>>
  /\ UNCHANGED <<pipeVars, clock, batch_size, file, committed, source, calls>>

\* DataExtractor.__init__: self.checkpoints = self._load_checkpoints()
Restart ==
  /\ pc = "crashed"
  /\ file.st # "truncated"
  /\ checkpoints' = _load_checkpoints
  /\ everSaved' = DOMAIN _load_checkpoints
  /\ crashedIn' = ""
  /\ pc' = "idle"
  /\ UNCHANGED <<pipeVars, clock, batch_size, file, committed, callVars,
                 bodyVars, retryVars, outVars, calls>>

\* DataExtractor.__init__: json.load raises on the truncated file
RestartFails ==
  /\ pc = "crashed"
  /\ file.st = "truncated"
  /\ pc' = "init_failed"
  /\ UNCHANGED <<pipeVars, clock, batch_size, storeVars, callVars, bodyVars,
                 retryVars, outVars, ghostVars>>

\* the direct calls made: <<source, incremental, start_date, end_date>>
CallInputs ==
  {<<"fact1", "None", NoDate, NoDate>>, <<"fact1", "False", NoDate, NoDate>>,
   <<"fact1", "True", <<-1>>, <<0>>>>,
   <<"fact2", "True", NoDate, NoDate>>, <<"ref", "None", NoDate, NoDate>>,
   <<"notmpl", "None", NoDate, NoDate>>,
   <<"noquery", "True", NoDate, NoDate>>,
   <<"unknown", "None", NoDate, NoDate>>}

\* a caller invokes extract_data on the extractor
CallAny ==
  \E in \in CallInputs, R \in 0..MaxRows :
    /\ calls < MaxCalls
    /\ in[1] \in TableSources \/ R = 0
    /\ ppc = "p_idle"
    /\ calls' = calls + 1
    /\ BeginCall(in[1], in[2], R, in[3], in[4])
    /\ UNCHANGED pipeVars

\* an incremental extract_data call on the first extractor
CallIncremental ==
  \E s \in {"fact1", "fact2"}, R \in 1..MaxBatch :
    /\ calls < MaxCalls
    /\ ppc = "p_idle"
    /\ calls' = calls + 1
    /\ BeginCall(s, "True", R, NoDate, NoDate)
    /\ UNCHANGED pipeVars

Next ==
  \/ Tick
  \/ CallAny
  \/ Body
  \/ Fetch
  \/ FetchFails
  \/ Combine
  \/ SaveOpen
  \/ SaveOpenFails
  \/ SaveDump
  \/ SaveDumpFails
  \/ Crash
  \/ Restart
  \/ RestartFails

Spec == Init /\ [][Next]_vars

(***************************************************************************)
(* Two processes, each with its own DataExtractor, on one checkpoint file. *)
(* No step takes a lock: the steps of the two extractors interleave.       *)
(***************************************************************************)
\* DataExtractor.__init__ in the second process: _load_checkpoints
Construct2 ==
  /\ pc2 = "none"
  /\ file.st # "truncated"
  /\ checkpoints2' = _load_checkpoints
  /\ pc2' = "idle"
  /\ UNCHANGED <<clock, batch_size, extractorVars, ppc, todo, results,
                 runArgs, runData, summaryVars, validatorVars, alertVars,
                 handed>>

\* DataExtractor.__init__ in the second process: json.load raises on the
\* file the first process has open for writing
Construct2Fails ==
  /\ pc2 = "none"
  /\ file.st = "truncated"
  /\ pc2' = "init_failed"
  /\ UNCHANGED <<clock, batch_size, extractorVars, ppc, todo, results,
                 runArgs, runData, summaryVars, validatorVars, alertVars,
                 handed, checkpoints2>>

\* an incremental extraction of the second extractor returned rows:
\* _save_checkpoint sets the checkpoint of the source in memory
Extract2 ==
  \E s \in {"fact1", "fact2"} :
    /\ pc2 = "idle"
    /\ checkpoints2' = SetCheckpoint(checkpoints2, s, now)
    /\ pc2' = "save_open"
    /\ UNCHANGED <<clock, batch_size, extractorVars, ppc, todo, results,
                   runArgs, runData, summaryVars, validatorVars, alertVars,
                   handed>>

\* _save_checkpoint of the second extractor: open(checkpoint_path, 'w')
SaveOpen2 ==
  /\ pc2 = "save_open"
  /\ file' = TruncatedFile
  /\ pc2' = "save_dump"
  /\ UNCHANGED <<clock, batch_size, checkpoints, committed, pc, callVars,
                 bodyVars, retryVars, outVars, ghostVars, ppc, todo, results,
                 runArgs, runData, summaryVars, validatorVars, alertVars,
                 handed, checkpoints2>>

\* _save_checkpoint of the second extractor: json.dump writes its mapping
SaveDump2 ==
  /\ pc2 = "save_dump"
  /\ file' = ValidFile(checkpoints2)
  /\ committed' = checkpoints2
  /\ pc2' = "idle"
  /\ UNCHANGED <<clock, batch_size, checkpoints, pc, callVars, bodyVars,
                 retryVars, outVars, ghostVars, ppc, todo, results, runArgs,
                 runData, summaryVars, validatorVars, alertVars, handed,
                 checkpoints2>>

ConcurrentNext ==
  \/ Tick
  \/ CallIncremental
  \/ Body
  \/ Fetch
  \/ Combine
  \/ SaveOpen
  \/ SaveDump
  \/ Construct2
  \/ Construct2Fails
  \/ Extract2
  \/ SaveOpen2
  \/ SaveDump2

ConcurrentSpec == Init /\ [][ConcurrentNext]_vars

(***************************************************************************)
(* The validator (data_validator.py).  A dataset is a record: columns is   *)
(* the set of its column names, rows holds the values of column id (the    *)
(* row index when the dataset has no such column), and every other column  *)
(* is a field holding its values.  A check name is the sequence of its     *)
(* parts: 'referential_integrity_<parent>' is the name of the family       *)
(* followed by the parent.                                                 *)
(***************************************************************************)
sample_duplicates == 5     \* duplicates.head(5)
sample_orphaned_keys == 10 \* list(orphaned_keys)[:10]
NaN == 0      \* a null cell
Text == -1    \* a cell of column id holding a string
min_date == 1 \* date_validation min_date, as a day number
max_date == 2 \* date_validation max_date, as a day number

\* dict.get(k, default)
Get(d, k, default) == IF k \in DOMAIN d THEN d[k] ELSE default

\* the values of a column of a dataset
Col(data, c) == IF c = "id" THEN data.rows ELSE data[c]

\* the set of values of a sequence
Values(rows) == {rows[i] : i \in 1..Len(rows)}

\* the relationship lists of the configurations validated: none, one, two
\* to the same parent by different foreign keys, two to different parents
RelationshipLists ==
  {<<>>,
   relationships,
   relationships
     \o <<[child |-> "fact1", parent |-> "ref", foreign_key |-> "age"]>>,
   relationships
     \o <<[child |-> "fact1", parent |-> "fact2", foreign_key |-> "id"]>>}

\* a section of quality_checks: absent, or present with one of the values
OptSection(name, values) == {<<>>} \cup {name :> v : v \in values}

\* the configurations validated
Configs ==
  {rc @@ nc @@ dv @@ dc @@ ri :
     rc \in OptSection("row_count",
              {[enabled |-> e, min_rows |-> min_rows] : e \in BOOLEAN}),
     nc \in {"null_checks" :> [enabled |-> e, critical_columns |-> c,
                               max_null_percentage |-> 50] :
               e \in BOOLEAN, c \in {<<>>, <<"id", "age">>}}
             \ {"null_checks" :> [enabled |-> FALSE,
                                  critical_columns |-> <<>>,
                                  max_null_percentage |-> 50]},
     dv \in {"date_validation" :> [enabled |-> e] : e \in BOOLEAN},
     dc \in OptSection("duplicate_checks",
              {[enabled |-> e, key_columns |-> <<"visit_date", "age">>] :
                 e \in BOOLEAN}),
     ri \in OptSection("referential_integrity",
              {[enabled |-> TRUE, relationships |-> r] :
                 r \in RelationshipLists}
              \cup {[enabled |-> FALSE, relationships |-> relationships]})}

\* sequences of length n over a set
SeqsOf(S, n) == [1..n -> S]

\* datasets longer than MaxLen: the lists of the samples are cut at 5
\* duplicates and at 10 orphaned keys
LongDatasets ==
  {Frame(<<1, 1, 2>>), Frame(<<1, 2, 4>>),
   Frame([i \in 1..(sample_duplicates + 1) |-> 1]),
   Frame([i \in 1..(sample_orphaned_keys + 1) |-> i + 3]),
   [columns |-> {"id", "age"}, rows |-> <<NaN, NaN>>, age |-> <<1, 1>>]}

\* the datasets validated: column id alone with null, text and repeated
\* values; columns id, visit_date and age; column visit_date alone
Datasets ==
  LongDatasets \cup UNION {
    {[columns |-> {"id"}, rows |-> r] : r \in SeqsOf({Text, NaN, 1}, n)}
    \cup
    {[columns |-> {"id", "visit_date", "age"}, rows |-> [i \in 1..n |-> i],
      visit_date |-> [i \in 1..n |-> d], age |-> [i \in 1..n |-> a]] :
       d \in {0, 1}, a \in {-1, 1}}
    \cup
    {[columns |-> {"visit_date"}, rows |-> [i \in 1..n |-> i],
      visit_date |-> [i \in 1..n |-> d]] : d \in {0, 1}} :
    n \in 0..MaxLen}

\* the datasets of the validations that follow the first one
Revalidated ==
  {d \in Datasets :
     d.columns = {"id"} /\ Len(d.rows) = MaxLen /\ Text \notin Values(d.rows)}

\* the source and reference_data arguments: no reference data, the parent
\* with its key column, the parent without it, and a source that is the
\* child of no relationship and declares no primary key
ValidateInputs ==
  {<<"fact1", EmptyMap>>,
   <<"fact1", [s \in {"ref"} |-> Frame(<<1, 2, 3>>)]>>,
   <<"fact1", [s \in {"ref"} |-> EmptyFrame]>>,
   <<"other", [s \in {"ref"} |-> Frame(<<1>>)]>>}

\* ValidationResult; checked is details['checked'], true when absent
Result(name, passed, checked) ==
  [check_name |-> name, passed |-> passed, checked |-> checked,
   details |-> EmptyMap]

\* ValidationResult of a check that reports what it measured in details
Detailed(name, passed, details) ==
  [check_name |-> name, passed |-> passed, checked |-> TRUE,
   details |-> details]

\* the first n elements of a sequence
Head_n(seq, n) == SubSeq(seq, 1, Min(n, Len(seq)))

\* the elements of a sequence that satisfy a test, in order
RECURSIVE Select(_, _)
Select(seq, keep) ==
  IF seq = <<>> THEN <<>>
  ELSE (IF keep[Head(seq)] THEN <<Head(seq)>> ELSE <<>>)
       \o Select(Tail(seq), keep)

\* outcomes of a check: the results it returns, or the KeyError it raises
Ok(rs) == [raised |-> FALSE, results |-> rs]
KeyError == [raised |-> TRUE, results |-> <<>>]

\* a sequencing that a failed result ends as well
ThenStopOnFailure(a, b) ==
  IF a.raised \/ \E i \in 1..Len(a.results) : ~a.results[i].passed THEN a
  ELSE [raised |-> b.raised, results |-> a.results \o b.results]

\* the statements of validate_all in sequence: an exception ends the call
Then(a, b) ==
  IF a.raised THEN a
  ELSE [raised |-> b.raised, results |-> a.results \o b.results]

\* quality_config.get(section, {}).get('enabled', True)
Enabled(section) == Get(Get(quality_config, section, <<>>), "enabled", TRUE)

\* quality_config.get('null_checks', {}).get('critical_columns')
critical_columns ==
  Get(Get(quality_config, "null_checks", <<>>), "critical_columns", <<>>)

\* a comparison that the minimum itself fails
_validate_row_count_above(data) ==
  IF "row_count" \notin DOMAIN quality_config THEN KeyError
  ELSE LET min_required == Get(quality_config["row_count"], "min_rows", 100)
           row_count == Len(data.rows)
       IN Ok(<<Detailed(<<"row_count">>, row_count > min_required,
                        [row_count |-> row_count,
                         min_required |-> min_required])>>)

\* DataValidator._validate_row_count
_validate_row_count(data) ==
  IF "row_count" \notin DOMAIN quality_config THEN KeyError
  ELSE LET min_required == Get(quality_config["row_count"], "min_rows", 100)
           row_count == Len(data.rows)
       IN Ok(<<Detailed(<<"row_count">>, row_count >= min_required,
                        [row_count |-> row_count,
                         min_required |-> min_required])>>)

\* data[col].isnull().sum()
null_count(data, c) ==
  Cardinality({i \in 1..Len(data.rows) : Col(data, c)[i] = NaN})

\* the issues appended for the critical columns, in their order: one for
\* each column of the dataset that is over the threshold
RECURSIVE Issues(_, _, _)
Issues(data, cols, over) ==
  IF cols = <<>> THEN <<>>
  ELSE (IF Head(cols) \in data.columns /\ Head(cols) \in over
        THEN <<[column |-> Head(cols),
                null_count |-> null_count(data, Head(cols))]>>
        ELSE <<>>)
       \o Issues(data, Tail(cols), over)

\* a threshold that a percentage equal to it exceeds
_validate_null_values_at(data, s) ==
  LET max_null_pct ==
        Get(quality_config["null_checks"], "max_null_percentage", 5)
      over == {c \in data.columns :
                 /\ Len(data.rows) > 0
                 /\ null_count(data, c) * 100
                      >= max_null_pct * Len(data.rows)}
      issues == Issues(data, critical_columns, over)
  IN Ok(<<Detailed(<<"null_values">>, issues = <<>>,
                   IF issues = <<>>
                   THEN [critical_columns |-> critical_columns]
                   ELSE [issues |-> issues,
                         max_null_percentage |-> max_null_pct])>>)

\* DataValidator._validate_null_values: without rows the percentage is not
\* a number, which is over no threshold
_validate_null_values(data, s) ==
  LET max_null_pct ==
        Get(quality_config["null_checks"], "max_null_percentage", 5)
      over == {c \in data.columns :
                 /\ Len(data.rows) > 0
                 /\ null_count(data, c) * 100
                      > max_null_pct * Len(data.rows)}
      issues == Issues(data, critical_columns, over)
  IN Ok(<<Detailed(<<"null_values">>, issues = <<>>,
                   IF issues = <<>>
                   THEN [critical_columns |-> critical_columns]
                   ELSE [issues |-> issues,
                         max_null_percentage |-> max_null_pct])>>)

\* the columns with 'date' in the name
date_columns(data) == data.columns \cap {"visit_date"}

\* DataValidator._validate_date_ranges: no source has a date_column
_validate_date_ranges(data, s) ==
  Ok(<<Result(<<"date_ranges">>,
              \A c \in date_columns(data) : \A i \in 1..Len(data.rows) :
                 Col(data, c)[i] >= min_date /\ Col(data, c)[i] <= max_date,
              TRUE)>>)

\* data[data.duplicated(subset=keys, keep=...)]: the rows, by their
\* positions, whose values on the keys are those of another row; with
\* keep='first' the first row of each group is left out
DuplicatedKeep(data, keys, first) ==
  LET n == Len(data.rows)
      same(i, j) == \A c \in keys : Col(data, c)[i] = Col(data, c)[j]
      repeated == [i \in 1..n |->
                     \E j \in 1..n :
                        /\ same(i, j)
                        /\ IF first THEN j < i ELSE j # i]
  IN Select([i \in 1..n |-> i], repeated)

\* a count of the repeats alone
DuplicatedFirst(data, keys) == DuplicatedKeep(data, keys, TRUE)

\* data[data.duplicated(subset=existing_keys, keep=False)]
Duplicated(data, keys) == DuplicatedKeep(data, keys, FALSE)

\* a selection that never looks at the primary key
key_cols_generic(data, s) ==
  Get(quality_config["duplicate_checks"], "key_columns", <<>>)

\* _validate_duplicates, "Try to use primary key if available"
key_cols(data, s) ==
  LET source_config == Get(data_sources, s, <<>>) IN
  IF /\ "primary_key" \in DOMAIN source_config
     /\ source_config.primary_key \in data.columns
  THEN <<source_config.primary_key>>
  ELSE Get(quality_config["duplicate_checks"], "key_columns", <<>>)

\* DataValidator._validate_duplicates
_validate_duplicates(data, s) ==
  IF "duplicate_checks" \notin DOMAIN quality_config THEN KeyError
  ELSE
    LET existing_keys == Values(key_cols(data, s)) \cap data.columns
        duplicates == Duplicated(data, existing_keys)
    IN IF key_cols(data, s) = <<>> \/ existing_keys = {}
       THEN Ok(<<Result(<<"duplicates">>, TRUE, FALSE)>>)
       ELSE Ok(<<Detailed(
                   <<"duplicates">>, Len(duplicates) = 0,
                   IF Len(duplicates) = 0
                   THEN [key_columns |-> existing_keys, duplicate_count |-> 0]
                   ELSE [key_columns |-> existing_keys,
                         duplicate_count |-> Len(duplicates),
                         sample_duplicates |->
                           Head_n(duplicates, sample_duplicates)])>>)

\* DataValidator._validate_data_types: id is the column whose name holds a
\* numeric indicator
_validate_data_types(data, s) ==
  Ok(<<Result(<<"data_types">>,
              \A c \in data.columns \cap {"id"} :
                 \A i \in 1..Len(data.rows) : Col(data, c)[i] # Text,
              TRUE)>>)

\* DataValidator._validate_value_ranges: age is the column that must not
\* be negative
_validate_value_ranges(data, s) ==
  Ok(<<Result(<<"value_ranges">>,
              \A c \in data.columns \cap {"age"} :
                 \A i \in 1..Len(data.rows) : Col(data, c)[i] >= 0,
              TRUE)>>)

\* a set of keys that keeps the null
keepna(column) == Values(column)

\* set(column.dropna())
dropna(column) == Values(column) \ {NaN}

\* list(keys)[:n]: a set of small integers is listed in ascending order
Smallest(keys, n) ==
  {k \in keys : Cardinality({j \in keys : j < k}) < n}

\* DataValidator._validate_referential_integrity, for one relationship
CheckRelationship(data, rel, reference_data) ==
  LET name == <<"referential_integrity", rel.parent>>
      pk_column == Get(Get(data_sources, rel.parent, <<>>), "primary_key",
                       rel.foreign_key)
  IN
  IF rel.parent \notin DOMAIN reference_data
  THEN Result(name, TRUE, FALSE)
  ELSE IF rel.foreign_key \notin data.columns
  THEN Result(name, TRUE, FALSE)
  ELSE IF pk_column \notin reference_data[rel.parent].columns
  THEN Result(name, FALSE, FALSE)
  ELSE
    LET valid_keys == dropna(Col(reference_data[rel.parent], pk_column))
        child_keys == dropna(Col(data, rel.foreign_key))
        orphaned_keys == child_keys \ valid_keys
        orphaned_count == Cardinality(orphaned_keys)
    IN Detailed(name, orphaned_count = 0,
                IF orphaned_count = 0
                THEN [parent |-> rel.parent, foreign_key |-> rel.foreign_key,
                      orphaned_count |-> 0]
                ELSE [parent |-> rel.parent, foreign_key |-> rel.foreign_key,
                      orphaned_count |-> orphaned_count,
                      sample_orphaned_keys |->
                        Smallest(orphaned_keys, sample_orphaned_keys)])

\* a loop that emits nothing for a parent that is not in reference_data
RECURSIVE CheckRelationshipsSkipAbsent(_, _, _, _)
CheckRelationshipsSkipAbsent(data, s, reference_data, rels) ==
  IF rels = <<>> THEN <<>>
  ELSE (IF Head(rels).child = s /\ Head(rels).parent \in DOMAIN reference_data
        THEN <<CheckRelationship(data, Head(rels), reference_data)>>
        ELSE <<>>)
       \o CheckRelationshipsSkipAbsent(data, s, reference_data, Tail(rels))

\* _validate_referential_integrity, "for rel in relationships"
RECURSIVE CheckRelationships(_, _, _, _)
CheckRelationships(data, s, reference_data, rels) ==
  IF rels = <<>> THEN <<>>
  ELSE (IF Head(rels).child = s
        THEN <<CheckRelationship(data, Head(rels), reference_data)>>
        ELSE <<>>)
       \o CheckRelationships(data, s, reference_data, Tail(rels))

\* DataValidator._validate_referential_integrity
_validate_referential_integrity(data, s, reference_data) ==
  IF "referential_integrity" \notin DOMAIN quality_config THEN KeyError
  ELSE
    LET rs == CheckRelationships(
                data, s, reference_data,
                Get(quality_config["referential_integrity"],
                    "relationships", <<>>))
    IN IF rs # <<>> THEN Ok(rs)
       ELSE Ok(<<Result(<<"referential_integrity">>, TRUE, TRUE)>>)

\* DataValidator.validate_all: the results appended, and whether a check
\* raised
validate_all(data, s, reference_data) ==
  LET Skip == Ok(<<>>)
      row_count == IF Enabled("row_count")
                   THEN _validate_row_count(data) ELSE Skip
      null_values == IF critical_columns # <<>>
                     THEN _validate_null_values(data, s) ELSE Skip
      date_ranges == IF Enabled("date_validation")
                     THEN _validate_date_ranges(data, s) ELSE Skip
      duplicates == IF Enabled("duplicate_checks")
                    THEN _validate_duplicates(data, s) ELSE Skip
      integrity ==
        IF reference_data # EmptyMap /\ Enabled("referential_integrity")
        THEN _validate_referential_integrity(data, s, reference_data)
        ELSE Skip
  IN Then(row_count,
     Then(null_values,
     Then(date_ranges,
     Then(duplicates,
     Then(_validate_data_types(data, s),
     Then(_validate_value_ranges(data, s),
          integrity))))))

\* round(num / den, 0), to the nearest integer and to the even one of two
Round(num, den) ==
  LET q == num \div den
      r == num % den
  IN IF 2 * r > den \/ (2 * r = den /\ q % 2 = 1) THEN q + 1 ELSE q

\* a rate that is cut, not rounded
success_rate_floor(passed, total) ==
  IF total > 0 THEN (passed * 10000) \div total ELSE 0

\* round(passed / total * 100, 2) if total > 0 else 0, in hundredths of a
\* percent
success_rate(passed, total) ==
  IF total > 0 THEN Round(passed * 10000, total) ELSE 0

\* DataValidator.get_validation_summary
get_validation_summary(rs) ==
  LET passed == Cardinality({i \in 1..Len(rs) : rs[i].passed}) IN
  [total_checks |-> Len(rs), passed |-> passed, failed |-> Len(rs) - passed,
   success_rate |-> success_rate(passed, Len(rs))]

\* a match of the whole name
ContainsWhole(name, c) == name = <<c>>

\* c in result.check_name, on names given by their parts
Contains(name, c) == \E i \in 1..Len(name) : name[i] = c

\* DataValidator.has_critical_failures
critical_checks == {"row_count", "null_values", "referential_integrity"}
has_critical_failures(rs) ==
  \E i \in 1..Len(rs) :
     ~rs[i].passed /\ \E c \in critical_checks : Contains(rs[i].check_name, c)

\* a validator that appends to the list of the calls before
ValidateAllKeeps ==
  \E data \in (IF v_calls = 0 THEN Datasets ELSE Revalidated),
     in \in ValidateInputs :
    LET s == in[1]
        reference_data == in[2]
        out == validate_all(data, s, reference_data)
    IN
    /\ v_calls < MaxValidations
    /\ v_calls = 0 \/ v_critical # "none"
    /\ v_calls' = v_calls + 1
    /\ v_source' = s /\ v_data' = data /\ v_reference' = reference_data
    /\ v_results' = v_results \o out.results
    /\ v_prior' = has_critical_failures(v_results)
    /\ v_raised' = out.raised
    /\ v_critical' = "none" /\ v_summary' = <<>>
    /\ UNCHANGED <<quality_config, summaryVars, alertVars>>
    /\ UNCHANGED <<handed, peerVars>>
    /\ UNCHANGED <<clock, batch_size, extractorVars>>
    /\ UNCHANGED <<ppc, todo, results, runArgs, runData>>

\* validate_all is called on the validator
ValidateAll ==
  \E data \in (IF v_calls = 0 THEN Datasets ELSE Revalidated),
     in \in ValidateInputs :
    LET s == in[1]
        reference_data == in[2]
        out == validate_all(data, s, reference_data)
    IN
    /\ v_calls < MaxValidations
    /\ v_calls = 0 \/ v_critical # "none"
    /\ v_calls' = v_calls + 1
    /\ v_source' = s /\ v_data' = data /\ v_reference' = reference_data
    /\ v_results' = out.results
    /\ v_prior' = has_critical_failures(v_results)
    /\ v_raised' = out.raised
    /\ v_critical' = "none" /\ v_summary' = <<>>
    /\ UNCHANGED <<quality_config, summaryVars, alertVars>>
    /\ UNCHANGED <<handed, peerVars>>
    /\ UNCHANGED <<clock, batch_size, extractorVars>>
    /\ UNCHANGED <<ppc, todo, results, runArgs, runData>>

\* get_validation_summary is called on the validator
GetValidationSummary ==
  /\ v_calls > 0 /\ v_summary = <<>>
  /\ v_summary' = <<get_validation_summary(v_results)>>
  /\ UNCHANGED <<quality_config, v_source, v_data, v_reference, v_results,
                 v_raised, v_calls, v_critical, v_prior, summaryVars,
                 alertVars>>
  /\ UNCHANGED <<handed, peerVars>>
  /\ UNCHANGED <<clock, batch_size, extractorVars>>
  /\ UNCHANGED <<ppc, todo, results, runArgs, runData>>

\* has_critical_failures is called on the validator, after the summary
\* as in ETLPipeline.run_validation
HasCriticalFailures ==
  /\ v_calls > 0 /\ v_critical = "none" /\ v_summary # <<>>
  /\ v_critical' = IF has_critical_failures(v_results)
                   THEN "True" ELSE "False"
  /\ UNCHANGED <<quality_config, v_source, v_data, v_reference, v_results,
                 v_raised, v_calls, v_summary, v_prior, summaryVars,
                 alertVars>>
  /\ UNCHANGED <<handed, peerVars>>
  /\ UNCHANGED <<clock, batch_size, extractorVars>>
  /\ UNCHANGED <<ppc, todo, results, runArgs, runData>>

\* a validator constructed on any of the configurations
ValidatorInit ==
  /\ ExtractorInit /\ PipelineInit
  /\ batch_size = 1
  /\ quality_config \in Configs
  /\ v_source = "fact1" /\ v_data = EmptyFrame /\ v_reference = EmptyMap
  /\ v_results = <<>> /\ v_raised = FALSE /\ v_critical = "none"
  /\ v_calls = 0 /\ v_summary = <<>> /\ v_prior = FALSE

ValidatorNext == ValidateAll \/ GetValidationSummary \/ HasCriticalFailures

ValidatorSpec == ValidatorInit /\ [][ValidatorNext]_vars

(***************************************************************************)
(* The orchestrator (etl_pipeline.py).                                     *)
(***************************************************************************)
\* dict assignment m[k] = v
Put(m, k, v) == [x \in DOMAIN m \cup {k} |-> IF x = k THEN v ELSE m[x]]

\* ETLPipeline._log_execution
_log_execution(phase, st) ==
  execution_log' = Append(execution_log, [phase |-> phase, status |-> st])

\* the frame of the finished extract_data call is dropped
DropCall ==
  /\ pc' = "idle"
  /\ inc_arg' = "None" /\ upstream' = 0
  /\ cp0' = EmptyMap /\ file0' = MissingFile
  /\ start_arg' = NoDate /\ end_arg' = NoDate
  /\ start_date' = NoDate /\ end_date' = NoDate
  /\ attempt' = 0 /\ lastExc' = NoError /\ bodyRuns' = 0 /\ slept' = 0
  /\ partialFail' = FALSE
  /\ result' = EmptyFrame /\ error' = NoError /\ saved' = -1
  /\ incremental' = FALSE /\ query' = ""
  /\ all_data' = <<>> /\ batch_offset' = 0 /\ fetched' = <<>>
  /\ UNCHANGED source

\* run_full_pipeline is invoked and run_extraction enters
\* extract_all_sources
StartRun(srcs, inc, stop, dates) ==
  /\ ppc = "p_idle" /\ pc = "idle"
  /\ runs' = runs + 1
  /\ p_dates' = dates
  /\ log0' = Len(execution_log)
  /\ p_sources' = srcs /\ p_incremental' = inc /\ p_stop' = stop
  /\ runCp0' = checkpoints /\ runFile0' = file
  /\ todo' = srcs /\ results' = EmptyMap
  /\ transformed_data' = EmptyMap /\ output_paths' = {}
  /\ status' = "running"
  /\ ppc' = "extract"
  /\ UNCHANGED <<extracted_data, validation_results, execution_log>>
  /\ UNCHANGED <<run_id, summaries, summaryOf, validatorVars>>
  /\ handed' = <<>>
  /\ UNCHANGED peerVars
  /\ UNCHANGED <<clock, batch_size, extractorVars>>

\* an unknown source is skipped without an entry in the results
ExtractUnknownDrops ==
  /\ ppc = "extract" /\ todo # <<>>
  /\ Head(todo) \notin DOMAIN data_sources
  /\ todo' = Tail(todo)
  /\ UNCHANGED <<ppc, results, runArgs, auxVars, runData>>
  /\ UNCHANGED <<clock, batch_size, extractorVars>>

\* extract_all_sources: self.data_sources[source] raises KeyError, which
\* is caught and recorded as an empty dataset
ExtractUnknown ==
  /\ ppc = "extract" /\ todo # <<>>
  /\ Head(todo) \notin DOMAIN data_sources
  /\ results' = Put(results, Head(todo), EmptyFrame)
  /\ todo' = Tail(todo)
  /\ UNCHANGED <<ppc, runArgs, auxVars, runData>>
  /\ UNCHANGED <<clock, batch_size, extractorVars>>

\* extract_all_sources: an incremental source goes through extract_data
ExtractIncremental ==
  /\ ppc = "extract" /\ todo # <<>>
  /\ Head(todo) \in DOMAIN data_sources
  /\ data_sources[Head(todo)].incremental
  /\ \E R \in 0..MaxRows :
       /\ Head(todo) \in TableSources \/ R = 0
       /\ BeginCall(Head(todo),
                    IF p_incremental THEN "True" ELSE "False", R,
                    p_dates[1], p_dates[2])
  /\ ppc' = "extract_wait"
  /\ UNCHANGED <<todo, results, runArgs, auxVars, runData, calls>>

\* extract_all_sources: extract_data returned or raised; a failure is
\* recorded as an empty dataset
ExtractCollect ==
  /\ ppc = "extract_wait" /\ pc \in {"returned", "raised"}
  /\ results' = Put(results, Head(todo),
                    IF pc = "returned" THEN result ELSE EmptyFrame)
  /\ todo' = Tail(todo)
  /\ ppc' = "extract"
  /\ DropCall
  /\ UNCHANGED <<runArgs, auxVars, runData>>
  /\ UNCHANGED <<clock, batch_size, storeVars, ghostVars>>

\* DataExtractor.extract_reference_data: one unpaged query
extract_reference_data(s, R) ==
  IF s \notin DOMAIN queries \/ "query" \notin queries[s]
  THEN EmptyFrame
  ELSE Frame([i \in 1..R |-> i])

\* a reference source sent through extract_data and its batch loop
ExtractReferencePaged ==
  /\ ppc = "extract" /\ todo # <<>>
  /\ Head(todo) \in DOMAIN data_sources
  /\ ~data_sources[Head(todo)].incremental
  /\ \E R \in 0..MaxRows :
       BeginCall(Head(todo), IF p_incremental THEN "True" ELSE "False", R,
                 p_dates[1], p_dates[2])
  /\ ppc' = "extract_wait"
  /\ UNCHANGED <<todo, results, runArgs, auxVars, runData, calls>>

\* extract_all_sources: a reference source goes through
\* extract_reference_data; an error it raises is caught and recorded as an
\* empty dataset
ExtractReference ==
  /\ ppc = "extract" /\ todo # <<>>
  /\ Head(todo) \in DOMAIN data_sources
  /\ ~data_sources[Head(todo)].incremental
  /\ \E R \in 0..MaxRows :
       results' = Put(results, Head(todo),
                      extract_reference_data(Head(todo), R))
  /\ todo' = Tail(todo)
  /\ UNCHANGED <<ppc, runArgs, auxVars, runData>>
  /\ UNCHANGED <<clock, batch_size, extractorVars>>

\* extract_all_sources: the query of the reference source raises
ExtractReferenceFails ==
  /\ ppc = "extract" /\ todo # <<>>
  /\ Head(todo) \in DOMAIN data_sources
  /\ ~data_sources[Head(todo)].incremental
  /\ results' = Put(results, Head(todo), EmptyFrame)
  /\ todo' = Tail(todo)
  /\ UNCHANGED <<ppc, runArgs, auxVars, runData>>
  /\ UNCHANGED <<clock, batch_size, extractorVars>>

\* a failure after which the run goes on with the transformation
FailRunResumes ==
  /\ status' = "failed"
  /\ ppc' = "transform"

\* run_full_pipeline, the except clause: the summary of the failed run is
\* built
FailRun ==
  /\ status' = "failed"
  /\ ppc' = "fail_summary"

\* run_extraction: extract_all_sources returned, the raw datasets are
\* saved and the phase is logged
FinishExtraction ==
  /\ ppc = "extract" /\ todo = <<>>
  /\ extracted_data' = results
  /\ results' = EmptyMap
  /\ _log_execution("extraction", "success")
  /\ ppc' = "validate"
  /\ UNCHANGED <<todo, runArgs, auxVars, validation_results, transformed_data,
                 output_paths, status>>
  /\ UNCHANGED <<clock, batch_size, extractorVars>>

\* run_extraction: save_extracted_data raises on a non-empty dataset
FinishExtractionFails ==
  /\ ppc = "extract" /\ todo = <<>>
  /\ \E s \in DOMAIN results : results[s].rows # <<>>
  /\ extracted_data' = results
  /\ results' = EmptyMap
  /\ _log_execution("extraction", "failed")
  /\ FailRun
  /\ UNCHANGED <<todo, runArgs, auxVars, validation_results, transformed_data,
                 output_paths>>
  /\ UNCHANGED <<clock, batch_size, extractorVars>>

\* a pool of every dataset of the run
ReferenceDataAll(data) == data

\* run_validation: "Collect reference data for integrity checks"
ReferenceData(data) ==
  LET refs == {s \in DOMAIN data :
                 ~(s \in DOMAIN data_sources /\ data_sources[s].incremental)}
  IN [s \in refs |-> data[s]]

\* a validation loop that never raises
ValidateSourcesNoStop(srcs, data, stop, vr) ==
  [vr |-> vr, raised |-> FALSE, calls |-> <<>>]

\* the outcome of the loop after one more validate_all call was made
Called(s, reference_data, out) ==
  [out EXCEPT !.calls = <<[source |-> s, reference_data |-> reference_data]>>
                        \o @]

\* a validation loop that validates the datasets without rows too
RECURSIVE ValidateSourcesAll(_, _, _, _)
ValidateSourcesAll(srcs, data, stop, vr) ==
  IF srcs = <<>> THEN [vr |-> vr, raised |-> FALSE, calls |-> <<>>]
  ELSE LET reference_data == ReferenceData(data)
           out == validate_all(data[Head(srcs)], Head(srcs), reference_data)
           vr1 == Put(vr, Head(srcs), get_validation_summary(out.results))
       IN Called(Head(srcs), reference_data,
            IF out.raised
            THEN [vr |-> vr, raised |-> TRUE, calls |-> <<>>]
            ELSE IF stop /\ has_critical_failures(out.results)
            THEN [vr |-> vr1, raised |-> TRUE, calls |-> <<>>]
            ELSE ValidateSourcesAll(Tail(srcs), data, stop, vr1))

RECURSIVE ValidateSources(_, _, _, _)
\* run_validation, "Validate each source": the validation results after the
\* loop, whether the loop raised, and the validate_all calls it made
ValidateSources(srcs, data, stop, vr) ==
  IF srcs = <<>> THEN [vr |-> vr, raised |-> FALSE, calls |-> <<>>]
  ELSE IF data[Head(srcs)].rows = <<>>
  THEN ValidateSources(Tail(srcs), data, stop, vr)
  ELSE LET reference_data == ReferenceData(data)
           out == validate_all(data[Head(srcs)], Head(srcs), reference_data)
           vr1 == Put(vr, Head(srcs), get_validation_summary(out.results))
       IN Called(Head(srcs), reference_data,
            IF out.raised
            THEN [vr |-> vr, raised |-> TRUE, calls |-> <<>>]
            ELSE IF stop /\ has_critical_failures(out.results)
            THEN [vr |-> vr1, raised |-> TRUE, calls |-> <<>>]
            ELSE ValidateSources(Tail(srcs), data, stop, vr1))

\* run_validation
Validate ==
  /\ ppc = "validate"
  /\ IF extracted_data = EmptyMap
     THEN /\ ppc' = "transform"
          /\ handed' = <<>>
          /\ UNCHANGED <<validation_results, execution_log, status>>
     ELSE LET out == ValidateSources(p_sources, extracted_data, p_stop,
                                     validation_results) IN
          /\ validation_results' = out.vr
          /\ handed' = out.calls
          /\ IF out.raised
             THEN /\ _log_execution("validation", "failed")
                  /\ FailRun
             ELSE /\ _log_execution("validation", "success")
                  /\ ppc' = "transform"
                  /\ UNCHANGED status
  /\ UNCHANGED <<todo, results, runArgs, summaryVars, validatorVars,
                 alertVars, peerVars, extracted_data, transformed_data,
                 output_paths>>
  /\ UNCHANGED <<clock, batch_size, extractorVars>>

\* run_transformation, on one dataset
TransformFrame(df) ==
  IF df.rows = <<>> THEN df
  ELSE [columns |-> df.columns \cup {"extraction_date", "run_id"},
        rows |-> df.rows]

\* run_transformation
Transform ==
  /\ ppc = "transform"
  /\ transformed_data' =
       [s \in DOMAIN extracted_data |-> TransformFrame(extracted_data[s])]
  /\ _log_execution("transformation", "success")
  /\ ppc' = "load"
  /\ UNCHANGED <<todo, results, runArgs, auxVars, extracted_data,
                 validation_results, output_paths, status>>
  /\ UNCHANGED <<clock, batch_size, extractorVars>>

\* run_transformation raises on a non-empty dataset
TransformFails ==
  /\ ppc = "transform"
  /\ \E s \in DOMAIN extracted_data : extracted_data[s].rows # <<>>
  /\ _log_execution("transformation", "failed")
  /\ FailRun
  /\ UNCHANGED <<todo, results, runArgs, auxVars, extracted_data,
                 validation_results, transformed_data, output_paths>>
  /\ UNCHANGED <<clock, batch_size, extractorVars>>

\* run_load
Load ==
  /\ ppc = "load"
  /\ output_paths' =
       {s \in DOMAIN transformed_data : transformed_data[s].rows # <<>>}
  /\ _log_execution("load", "success")
  /\ ppc' = "summary"
  /\ UNCHANGED <<todo, results, runArgs, auxVars, extracted_data,
                 validation_results, transformed_data, status>>
  /\ UNCHANGED <<clock, batch_size, extractorVars>>

\* run_load raises while writing a non-empty dataset
LoadFails ==
  /\ ppc = "load"
  /\ \E s \in DOMAIN transformed_data : transformed_data[s].rows # <<>>
  /\ _log_execution("load", "failed")
  /\ FailRun
  /\ UNCHANGED <<todo, results, runArgs, auxVars, extracted_data,
                 validation_results, transformed_data, output_paths>>
  /\ UNCHANGED <<clock, batch_size, extractorVars>>

\* 'validation_summary' of the summary run_full_pipeline returns, built
\* from what run_validation returned: the validation results of the
\* pipeline, or {} when there was no data
validation_summary ==
  LET returned == IF extracted_data = EmptyMap THEN EmptyMap
                  ELSE validation_results
  IN [s \in DOMAIN returned |->
        [passed |-> returned[s].passed,
         total |-> returned[s].total_checks,
         success_rate |-> returned[s].success_rate]]

\* ETLPipeline._save_pipeline_summary: the file named after run_id is
\* written
_save_pipeline_summary(summary) ==
  /\ summaries' = Put(summaries, run_id, summary)
  /\ summaryOf' = Put(summaryOf, runs, run_id)

\* str(e) of the exception that reached run_full_pipeline: the phase that
\* logged its failure, or the write of the summary
RunError ==
  IF /\ Len(execution_log) > log0
     /\ execution_log[Len(execution_log)].status = "failed"
  THEN execution_log[Len(execution_log)].phase
  ELSE "summary"

\* run_full_pipeline: the summary of the successful run is saved and
\* returned
SaveSummary ==
  /\ ppc = "summary"
  /\ _save_pipeline_summary([run_id |-> run_id, status |-> "success",
                             error |-> "",
                             validation_summary |-> validation_summary,
                             execution_log |-> execution_log])
  /\ status' = "success"
  /\ ppc' = "p_idle"
  /\ UNCHANGED <<todo, results, runArgs, extracted_data, validation_results,
                 transformed_data, output_paths, execution_log>>
  /\ UNCHANGED <<run_id, log0, validatorVars, alertVars>>
  /\ UNCHANGED <<handed, peerVars>>
  /\ UNCHANGED <<clock, batch_size, extractorVars>>

\* run_full_pipeline: writing the summary of the successful run raises,
\* which the except clause of the run catches
SaveSummaryFails ==
  /\ ppc = "summary"
  /\ FailRun
  /\ UNCHANGED <<todo, results, runArgs, auxVars, extracted_data,
                 validation_results, transformed_data, output_paths,
                 execution_log>>
  /\ UNCHANGED <<clock, batch_size, extractorVars>>

\* a failed summary written without the error
SaveFailedSummaryNoError ==
  /\ ppc = "fail_summary"
  /\ _save_pipeline_summary([run_id |-> run_id, status |-> "failed",
                             error |-> "",
                             execution_log |-> execution_log])
  /\ ppc' = "p_idle"
  /\ UNCHANGED <<todo, results, runArgs, runData>>
  /\ UNCHANGED <<run_id, log0, validatorVars, alertVars>>
  /\ UNCHANGED <<handed, peerVars>>
  /\ UNCHANGED <<clock, batch_size, extractorVars>>

\* run_full_pipeline, the except clause: the summary of the failed run is
\* saved and the exception is raised again
SaveFailedSummary ==
  /\ ppc = "fail_summary"
  /\ _save_pipeline_summary([run_id |-> run_id, status |-> "failed",
                             error |-> RunError,
                             execution_log |-> execution_log])
  /\ ppc' = "p_idle"
  /\ UNCHANGED <<todo, results, runArgs, runData>>
  /\ UNCHANGED <<run_id, log0, validatorVars, alertVars>>
  /\ UNCHANGED <<handed, peerVars>>
  /\ UNCHANGED <<clock, batch_size, extractorVars>>

\* run_full_pipeline, the except clause: writing the summary raises, and
\* that exception reaches the caller
SaveFailedSummaryFails ==
  /\ ppc = "fail_summary"
  /\ ppc' = "p_idle"
  /\ UNCHANGED <<todo, results, runArgs, auxVars, runData>>
  /\ UNCHANGED <<clock, batch_size, extractorVars>>

\* ETLPipeline.__init__: a new pipeline, with a new extractor that loads
\* the checkpoint file, replaces the one in use
NewPipeline ==
  /\ ppc = "p_idle" /\ pc = "idle"
  /\ runs > 0
  /\ file.st # "truncated"
  /\ checkpoints' = _load_checkpoints
  /\ everSaved' = DOMAIN _load_checkpoints
  /\ run_id' = strftime(now)
  /\ execution_log' = <<>>
  /\ extracted_data' = EmptyMap /\ validation_results' = EmptyMap
  /\ UNCHANGED <<ppc, todo, results, runArgs, transformed_data,
                 output_paths, status>>
  /\ handed' = <<>>
  /\ UNCHANGED peerVars
  /\ UNCHANGED <<summaries, summaryOf, log0, validatorVars, alertVars>>
  /\ UNCHANGED <<clock, batch_size, file, committed, pc, callVars, bodyVars,
                 retryVars, outVars, crashedIn, calls>>

\* the runs made: the sources requested
RunInputs ==
  {<<"fact1", "ref">>, <<"ref", "fact1">>, <<"unknown", "fact2">>, <<>>}

\* a caller invokes run_full_pipeline on the pipeline
StartAnyRun ==
  \E srcs \in RunInputs, inc \in BOOLEAN, stop \in BOOLEAN :
    /\ runs < MaxRuns
    /\ StartRun(srcs, inc, stop, <<NoDate, NoDate>>)
    /\ UNCHANGED alertVars

\* the steps of a run_full_pipeline execution on configured sources
RunSteps ==
  \/ ExtractIncremental
  \/ ExtractCollect
  \/ ExtractReference
  \/ ExtractReferenceFails
  \/ FinishExtraction
  \/ FinishExtractionFails
  \/ Validate
  \/ Transform
  \/ TransformFails
  \/ Load
  \/ LoadFails
  \/ SaveSummary
  \/ SaveSummaryFails
  \/ SaveFailedSummary
  \/ SaveFailedSummaryFails
  \/ Body
  \/ Fetch
  \/ FetchFails
  \/ Combine
  \/ SaveOpen
  \/ SaveOpenFails
  \/ SaveDump
  \/ SaveDumpFails

PipelineNext ==
  \/ Tick
  \/ StartAnyRun
  \/ NewPipeline
  \/ ExtractUnknown
  \/ RunSteps

PipelineSpec == Init /\ [][PipelineNext]_vars

(***************************************************************************)
(* The scheduler (scripts/run_scheduler.py): its jobs run on the one       *)
(* pipeline it constructed.                                                *)
(***************************************************************************)
\* schedule: the sources of the daily and of the monthly job
daily_sources == <<"fact1">>
monthly_sources == <<"ref">>

\* monitoring.alerts of the configuration: both kinds of alert are enabled
alert_config == [extraction_failure |-> TRUE, quality_check_failure |-> TRUE]

\* "if results.get('failed', 0) > 0"
HasFailed(entry) == Get(entry, "failed", 0) > 0

\* AlertManager.check_alert_conditions: the alerts, by type and source
check_alert_conditions(vr, extraction_metrics) ==
  (IF /\ Get(alert_config, "extraction_failure", TRUE)
      /\ Get(extraction_metrics, "status", "") = "failed"
   THEN {[type |-> "extraction_failure", source |-> ""]}
   ELSE {})
  \cup
  (IF Get(alert_config, "quality_check_failure", TRUE)
   THEN {[type |-> "quality_check_failure", source |-> x] :
           x \in {y \in DOMAIN vr : HasFailed(vr[y])}}
   ELSE {})

\* ExtractionScheduler._run_daily_extraction, to the call of the pipeline
_run_daily_extraction ==
  /\ runs < MaxJobs
  /\ job = "none"
  /\ job' = "daily" /\ alerts' = {}
  /\ StartRun(daily_sources, TRUE, FALSE,
              <<(<<strftime_date(now) - 1>>), (<<strftime_date(now)>>)>>)

\* ExtractionScheduler._run_daily_extraction, after the pipeline: the
\* alerts of the result are sent, or the alert of the exception
DailyAlerts ==
  /\ job = "daily" /\ ppc = "p_idle"
  /\ alerts' =
       IF status = "success"
       THEN check_alert_conditions(validation_summary,
                                   [status |-> "success"])
       ELSE {[type |-> "extraction_failure", source |-> ""]}
  /\ job' = "none"
  /\ UNCHANGED <<ppc, todo, results, runArgs, runData, summaryVars,
                 validatorVars>>
  /\ UNCHANGED <<handed, peerVars>>
  /\ UNCHANGED <<clock, batch_size, extractorVars>>

\* ExtractionScheduler._run_monthly_extraction_check, on the scheduled
\* day, to the call of the pipeline
_run_monthly_extraction_check ==
  /\ runs < MaxJobs
  /\ job = "none"
  /\ job' = "monthly" /\ alerts' = {}
  /\ StartRun(monthly_sources, FALSE, FALSE, <<NoDate, NoDate>>)

\* ExtractionScheduler._run_monthly_extraction_check, after the pipeline:
\* only the alert of the exception is sent
MonthlyAlerts ==
  /\ job = "monthly" /\ ppc = "p_idle"
  /\ alerts' =
       IF status = "success" THEN {}
       ELSE {[type |-> "extraction_failure", source |-> ""]}
  /\ job' = "none"
  /\ UNCHANGED <<ppc, todo, results, runArgs, runData, summaryVars,
                 validatorVars>>
  /\ UNCHANGED <<handed, peerVars>>
  /\ UNCHANGED <<clock, batch_size, extractorVars>>

SchedulerNext ==
  \/ Tick
  \/ _run_daily_extraction
  \/ DailyAlerts
  \/ _run_monthly_extraction_check
  \/ MonthlyAlerts
  \/ RunSteps

SchedulerSpec == Init /\ [][SchedulerNext]_vars

(***************************************************************************)
(* Properties of the batch extraction loop.                                *)
(***************************************************************************)
CeilDiv(a, b) == (a + b - 1) \div b

\* the pages requested are at offsets 0, B, 2B, ... and every page before
\* the last requested one is full
OffsetsInOrder ==
  /\ \A i \in 1..Len(fetched) : fetched[i].offset = (i - 1) * batch_size
  /\ \A i \in 1..(Len(fetched) - 1) : Len(fetched[i].rows) = batch_size

\* the pages of the fetch log, in fetch order
FetchedPages == [i \in 1..Len(fetched) |-> fetched[i].rows]

\* C1 as stated: a successful attempt issues ceil(R/B) fetches, plus one
\* extra empty fetch iff R is a positive multiple of B, at offsets
\* 0, B, 2B, ..., none after the first empty or short page.
C1_AsStated ==
  pc = "returned" =>
    /\ Len(fetched) = CeilDiv(upstream, batch_size)
         + (IF upstream > 0 /\ upstream % batch_size = 0 THEN 1 ELSE 0)
    /\ OffsetsInOrder

\* C1 amended: a successful attempt issues ceil(R/B) fetches, plus one extra
\* empty fetch iff R is a multiple of B, zero included (an empty upstream
\* costs one empty fetch), at offsets 0, B, 2B, ..., none after the first
\* empty or short page.
C1_FetchCount ==
  pc = "returned" =>
    /\ Len(fetched) = CeilDiv(upstream, batch_size)
         + (IF upstream % batch_size = 0 THEN 1 ELSE 0)
    /\ OffsetsInOrder

\* a call returned after several full pages and the extra empty fetch
C1_Witness ==
  /\ pc = "returned"
  /\ upstream > batch_size /\ upstream % batch_size = 0
  /\ Len(fetched) = upstream \div batch_size + 1
  /\ fetched[Len(fetched)].rows = <<>>

\* C2: the dataset returned by a successful call is the concatenation, in
\* fetch order, of the pages fetched in the successful attempt; its row
\* count is R and every upstream row appears exactly once.
C2_ResultIsAllRows ==
  pc = "returned" =>
    /\ result.rows = concat(FetchedPages)
    /\ Len(result.rows) = upstream
    /\ result.rows = [i \in 1..upstream |-> i]

\* a call returned a dataset built from a full page and a short page
C2_Witness ==
  /\ pc = "returned"
  /\ Len(fetched) = 2
  /\ Len(fetched[1].rows) = batch_size
  /\ Len(fetched[2].rows) \in 1..(batch_size - 1)
  /\ Len(result.rows) = upstream

(***************************************************************************)
(* Properties of the retry policy.                                         *)
(***************************************************************************)
InCall == pc \in {"body", "loop", "combine", "save_open", "save_dump"}

\* the steps one call can still take: attempts left, then position in the
\* attempt
Measure ==
  (max_retries - attempt) * (upstream + 6)
  + (CASE pc = "body" -> upstream + 5
       [] pc = "loop" -> 4 + (IF batch_offset < upstream
                              THEN upstream - batch_offset ELSE 0)
       [] pc = "combine" -> 3
       [] pc = "save_open" -> 2
       [] pc = "save_dump" -> 1
       [] OTHER -> 0)
  - (IF pc \in {"returned", "raised"} THEN (upstream + 6) * max_retries
     ELSE 0)

RetryOutcome ==
  /\ bodyRuns <= 3
  /\ pc = "returned" =>
       /\ bodyRuns = attempt + 1 /\ slept = delay * attempt
       /\ error = NoError
  /\ pc = "raised" =>
       /\ bodyRuns = 3 /\ slept = 2 * delay
       /\ error = lastExc /\ error.at = 3

\* C6: one call runs its body at most 3 times; it returns the result of the
\* first attempt that succeeds; after a failed attempt 1 or 2 it waits and
\* retries; when all 3 attempts raise, the exception of the third attempt
\* is propagated.  Every step of the call decreases the number of steps
\* left, so the call terminates.
C6_RetryPolicy ==
  [][/\ RetryOutcome'
     /\ (InCall /\ pc' # "crashed" /\ clock' = clock) =>
          /\ Measure' < Measure
          /\ (pc' = "body" => slept' = slept + delay /\ attempt' = attempt + 1)
          /\ (~InCall' => pc' \in {"returned", "raised"})]_vars

\* all three attempts of a call raised and the third exception came out
C6_Witness ==
  /\ pc = "raised"
  /\ bodyRuns = 3 /\ slept = 2 * delay
  /\ error = [kind |-> "db_error", at |-> 3]

\* C7: every attempt starts the batch loop at offset 0 with an empty
\* accumulator; when an attempt failed on a page after the first and a
\* later attempt succeeds, the dataset returned holds the pages of the
\* successful attempt only.
C7_RetryRestarts ==
  /\ (pc = "loop" /\ fetched = <<>>) => (batch_offset = 0 /\ all_data = <<>>)
  /\ (pc = "returned" /\ partialFail) =>
       /\ result.rows = concat(FetchedPages)
       /\ \A i, j \in 1..Len(result.rows) :
            result.rows[i] = result.rows[j] => i = j

\* a call returned rows after an attempt that had failed past its first page
C7_Witness ==
  /\ pc = "returned"
  /\ partialFail /\ attempt > 0
  /\ Len(result.rows) > batch_size

\* C8 as stated: a configuration error is not retried; the body runs once,
\* no delay is taken and the error is raised.
C8_ConfigErrorNotRetried ==
  (pc = "raised" /\ error.kind \in ConfigErrors) =>
    (bodyRuns = 1 /\ slept = 0)

(***************************************************************************)
(* Properties of the checkpoint store.                                     *)
(***************************************************************************)
\* C3 as stated: the value of get_last_extraction_date never decreases, and
\* a call that raises leaves the checkpoints, in memory and in the file, as
\* they were before the call.
C3_FailedCallKeepsCheckpoints ==
  [][/\ pc' \notin {"crashed", "init_failed"} =>
          \A s \in SourceNames :
            DtLeq(LastExtraction(checkpoints, s),
                  LastExtraction(checkpoints', s))
     /\ pc' = "raised" => (checkpoints' = cp0' /\ file' = file0')]_vars

\* C5 as stated: every incremental call that returns, whatever the number of
\* rows, leaves the checkpoint of the source at the instant of completion.
C5_AsStated ==
  [][(pc # "returned" /\ pc' = "returned" /\ incremental') =>
       /\ source' \in DOMAIN checkpoints'
       /\ LastExtraction(checkpoints', source') = DateTime(clock')]_vars

\* C5 amended: every incremental call that returns at least one row leaves
\* the checkpoint of the source, in memory and in the file, at the instant
\* of completion; a call that returns no row leaves the checkpoints as the
\* last attempt found them.
C5_CheckpointIsNow ==
  [][(pc # "returned" /\ pc' = "returned" /\ incremental') =>
       IF result'.rows # <<>>
       THEN /\ source' \in DOMAIN checkpoints'
            /\ LastExtraction(checkpoints', source') = DateTime(clock')
            /\ file' = ValidFile(checkpoints')
       ELSE UNCHANGED <<checkpoints, file>>]_vars

\* an incremental call returned rows and moved an older checkpoint to now
C5_Witness ==
  /\ pc = "returned" /\ incremental
  /\ result.rows # <<>>
  /\ source \in DOMAIN cp0
  /\ cp0[source] # checkpoints[source]
  /\ saved = clock

\* C9 as stated: a crash during _save_checkpoint leaves in the file every
\* checkpoint committed before for the other sources; the file is never
\* empty or truncated.
C9_CrashKeepsCommitted ==
  (pc = "crashed" /\ crashedIn \in {"save_open", "save_dump"}) =>
    /\ file.st # "truncated"
    /\ \A s \in DOMAIN committed \ {source} :
         s \in DOMAIN file.data /\ file.data[s] = committed[s]

\* C10: get_last_extraction_date(s) is absent iff no checkpoint was saved
\* for s; after _save_checkpoint(s, t) it is t, and it is unchanged for
\* every other source.
C10_GetAfterSave ==
  [][/\ \A s \in SourceNames :
          (LastExtraction(checkpoints', s) = None) <=> (s \notin everSaved')
     /\ (pc = "combine" /\ pc' = "save_open") =>
          /\ LastExtraction(checkpoints', source) = DateTime(clock)
          /\ \A s \in SourceNames \ {source} :
               LastExtraction(checkpoints', s) = LastExtraction(checkpoints, s)
    ]_vars

\* a save overwrote an older checkpoint of the source, at an instant with
\* microseconds
C10_Witness ==
  /\ pc = "save_open"
  /\ source \in DOMAIN cp0 /\ cp0[source] # checkpoints[source]
  /\ now.micro # 0

(***************************************************************************)
(* Properties of the orchestrator.                                         *)
(***************************************************************************)
\* C4 as stated: a run that ends with status failed leaves every source's
\* checkpoint, in memory and in the file, as it was when the run started.
C4_FailedRunKeepsCheckpoints ==
  (ppc = "p_idle" /\ status = "failed") =>
    (checkpoints = runCp0 /\ file = runFile0)

(***************************************************************************)
(* The validator: order, names and presence of the checks, and the         *)
(* critical-failure predicate (ValidatorSpec).                             *)
(***************************************************************************)
\* the families of checks in the order of validate_all
CheckOrder ==
  <<"row_count", "null_values", "date_ranges", "duplicates", "data_types",
    "value_ranges", "referential_integrity">>

\* the family of a result and its place in the order
Family(r) == r.check_name[1]
Place(r) == CHOOSE k \in 1..Len(CheckOrder) : CheckOrder[k] = Family(r)

\* the check of a family runs in a validate_all call with this reference
\* data
Runs(family, reference_data) ==
  CASE family = "row_count" -> Enabled("row_count")
    [] family = "null_values" -> critical_columns # <<>>
    [] family = "date_ranges" -> Enabled("date_validation")
    [] family = "duplicates" -> Enabled("duplicate_checks")
    [] family = "referential_integrity" ->
         reference_data # EmptyMap /\ Enabled("referential_integrity")
    [] OTHER -> TRUE

\* a validate_all call has returned its list
Validated == v_calls > 0 /\ ~v_raised

\* C11: the list validate_all returns holds the results in the order
\* row_count, null_values, date_ranges, duplicates, data_types,
\* value_ranges, referential_integrity, and after a result with passed =
\* false every later check that runs is still there.
C11_FixedOrderIndependent ==
  Validated =>
    /\ \A i, j \in 1..Len(v_results) :
         i < j => Place(v_results[i]) <= Place(v_results[j])
    /\ \A i \in 1..Len(v_results) :
         ~v_results[i].passed =>
           \A k \in (Place(v_results[i]) + 1)..Len(CheckOrder) :
              Runs(CheckOrder[k], v_reference) =>
                \E j \in (i + 1)..Len(v_results) :
                   Family(v_results[j]) = CheckOrder[k]

\* the first two checks failed and the five later ones are in the list
C11_Witness ==
  /\ Validated
  /\ Len(v_results) >= 7
  /\ ~v_results[1].passed /\ ~v_results[2].passed
  /\ Family(v_results[Len(v_results)]) = "referential_integrity"

\* C12 as stated: the check names of the list one validate_all call returns
\* are pairwise distinct.
C12_NamesDistinct ==
  Validated =>
    \A i, j \in 1..Len(v_results) :
       v_results[i].check_name = v_results[j].check_name => i = j

\* the sections of quality_checks and the family of the check of each
SectionFamily ==
  [row_count |-> "row_count", null_checks |-> "null_values",
   date_validation |-> "date_ranges", duplicate_checks |-> "duplicates",
   referential_integrity |-> "referential_integrity"]

\* C13 as stated: the list validate_all returns holds the result of a
\* section if and only if the section is enabled.
C13_EmittedIffEnabled ==
  Validated =>
    \A section \in DOMAIN SectionFamily :
       (\E i \in 1..Len(v_results) :
          Family(v_results[i]) = SectionFamily[section])
         <=> Enabled(section)

\* the results of the latest validate_all call, from its arguments
LatestResults == validate_all(v_data, v_source, v_reference).results

\* C14: has_critical_failures returns true exactly when a result of the
\* latest validate_all call has passed = false and a name of the family
\* row_count, null_values or referential_integrity; failed results of the
\* four other families alone leave it false.
C14_CriticalIffCriticalFamilyFailed ==
  v_critical # "none" =>
    /\ v_critical = "True" <=>
         \E i \in 1..Len(LatestResults) :
            /\ ~LatestResults[i].passed
            /\ Family(LatestResults[i])
                 \in {"row_count", "null_values", "referential_integrity"}
    /\ (\A i \in 1..Len(LatestResults) :
          ~LatestResults[i].passed =>
            Family(LatestResults[i])
              \in {"date_ranges", "duplicates", "data_types",
                   "value_ranges"})
         => v_critical = "False"

\* has_critical_failures returned true when the only failed result was the
\* one named after a parent, referential_integrity_<parent>
C14_Witness ==
  /\ v_critical = "True"
  /\ \E i \in 1..Len(v_results) : ~v_results[i].passed
  /\ \A i \in 1..Len(v_results) :
       ~v_results[i].passed => Len(v_results[i].check_name) = 2

(***************************************************************************)
(* The orchestrator: phases, failures, execution log and run summary       *)
(* (PipelineSpec), and the jobs of the scheduler (SchedulerSpec).          *)
(***************************************************************************)
\* the entries the running (or latest) run appended to the execution log
RunLog ==
  IF Len(execution_log) > log0
  THEN SubSeq(execution_log, log0 + 1, Len(execution_log))
  ELSE <<>>

Entry(phase, st) == [phase |-> phase, status |-> st]

\* the latest entry of the execution log is this one
LastLogged(log, phase, st) ==
  log # <<>> /\ log[Len(log)] = Entry(phase, st)

\* some source that run_validation validates has a critical failure
CriticalInRun ==
  \E s \in DOMAIN extracted_data :
     /\ extracted_data[s].rows # <<>>
     /\ has_critical_failures(
          validate_all(extracted_data[s], s,
                       ReferenceData(extracted_data)).results)

\* the validation phase of the run has failed
ValidationFailed ==
  \E i \in 1..Len(RunLog) : RunLog[i] = Entry("validation", "failed")

\* C15: when the validation phase ends, it has raised (the run builds its
\* failed summary) exactly if stop_on_validation_failure is set and some
\* validated source has a critical failure; with the flag unset the run
\* goes on to the transformation.  After a failed validation phase the run
\* logs no other phase, starts neither run_transformation nor run_load, and
\* the summary it writes has status failed.
C15_StopOnCriticalFailure ==
  [][/\ (ppc = "validate" /\ ppc' # ppc) =>
          /\ (p_stop /\ CriticalInRun) =>
               /\ ppc' = "fail_summary" /\ status' = "failed"
               /\ LastLogged(execution_log', "validation", "failed")
          /\ ~(p_stop /\ CriticalInRun) => ppc' = "transform"
     /\ ValidationFailed' =>
          /\ ppc' \in {"fail_summary", "p_idle"}
          /\ status' = "failed"
          /\ LastLogged(execution_log', "validation", "failed")
          /\ transformed_data' = EmptyMap /\ output_paths' = {}
          /\ runs' \in DOMAIN summaryOf' =>
               summaries'[summaryOf'[runs']].status = "failed"
    ]_vars

\* a run with the flag set has failed in validation and written its summary
C15_Witness ==
  /\ p_stop /\ ValidationFailed
  /\ ppc = "p_idle" /\ runs \in DOMAIN summaryOf
  /\ \E s \in DOMAIN extracted_data : extracted_data[s].rows # <<>>

\* the moves of a run from phase to phase
PhaseMoves ==
  {<<"p_idle", "extract">>, <<"extract", "extract_wait">>,
   <<"extract_wait", "extract">>, <<"extract", "validate">>,
   <<"validate", "transform">>, <<"transform", "load">>,
   <<"load", "summary">>, <<"summary", "p_idle">>,
   <<"fail_summary", "p_idle">>}
  \cup {<<p, "fail_summary">> :
          p \in {"extract", "validate", "transform", "load", "summary"}}

\* no entry of the run's log is a failure
NoneFailed(log) == \A i \in 1..Len(log) : log[i].status = "success"

\* C16: a run moves through extraction, validation, transformation and load
\* in this order; a phase starts only when the one before has logged its
\* success and nothing in the run has failed; the run ends with status
\* success only from the load phase, with extraction, transformation and
\* load logged as successes; once a phase raised the run only writes its
\* failed summary and ends.
C16_PhaseOrder ==
  [][/\ ppc' # ppc => <<ppc, ppc'>> \in PhaseMoves
     /\ (ppc' # ppc /\ ppc' \in {"validate", "transform", "load", "summary"})
          => NoneFailed(RunLog')
     /\ (ppc' # ppc /\ ppc' = "validate")
          => LastLogged(RunLog', "extraction", "success")
     /\ (ppc' # ppc /\ ppc' = "load")
          => LastLogged(RunLog', "transformation", "success")
     /\ (ppc' # ppc /\ ppc' = "summary")
          => LastLogged(RunLog', "load", "success")
     /\ (status' = "success" /\ status # "success") =>
          /\ ppc = "summary" /\ ppc' = "p_idle"
          /\ NoneFailed(RunLog)
          /\ \A ph \in {"extraction", "transformation", "load"} :
                \E i \in 1..Len(RunLog) : RunLog[i].phase = ph
     /\ (ppc = "fail_summary" \/ ppc' = "fail_summary") => status' = "failed"
    ]_vars

\* a run has ended with status success after four logged phases
C16_Witness ==
  /\ ppc = "p_idle" /\ status = "success"
  /\ Len(RunLog) = 4
  /\ \E s \in DOMAIN transformed_data : transformed_data[s].rows # <<>>

\* the sources of the run that extract_all_sources has gone through
Extracted == SubSeq(p_sources, 1, Len(p_sources) - Len(todo))

\* C17: in extract_all_sources a source whose extraction raised, or that is
\* not a configured source, is recorded as an empty dataset and the loop
\* goes on with the next source; the results hold exactly one entry for
\* every source gone through, so one for every requested source when the
\* loop ends; and the extraction phase fails only after extract_all_sources
\* has returned.
C17_SourceFailureIsolated ==
  [][/\ (ppc = "extract_wait" /\ pc = "raised" /\ ppc' # ppc) =>
          /\ results' = Put(results, Head(todo), EmptyFrame)
          /\ todo' = Tail(todo) /\ ppc' = "extract"
     /\ (/\ ppc = "extract" /\ todo # <<>>
         /\ Head(todo) \notin DOMAIN data_sources
         /\ <<todo, results, ppc>>' # <<todo, results, ppc>>) =>
          /\ results' = Put(results, Head(todo), EmptyFrame)
          /\ todo' = Tail(todo) /\ ppc' = "extract"
     /\ (ppc \in {"extract", "extract_wait"} /\ ppc' = "fail_summary") =>
          todo = <<>>
     /\ ppc' \in {"extract", "extract_wait"} =>
          DOMAIN results' = Values(Extracted')
     /\ (ppc = "extract" /\ ppc' = "validate") =>
          DOMAIN extracted_data' = Values(p_sources)
    ]_vars

\* extract_all_sources has returned: the unknown source it was asked first
\* is recorded empty and the source asked after it was extracted
C17_Witness ==
  /\ ppc = "extract" /\ todo = <<>>
  /\ p_sources = <<"unknown", "fact2">>
  /\ results["unknown"] = EmptyFrame
  /\ results["fact2"].rows # <<>>

PhaseName ==
  [extract |-> "extraction", validate |-> "validation",
   transform |-> "transformation", load |-> "load"]

\* C19 as stated: a phase that ends has appended exactly one entry, with its
\* status, to the execution log.
C19_EveryPhaseLogged ==
  [][(ppc \in DOMAIN PhaseName /\ ppc' \notin {ppc, "extract_wait"}) =>
       execution_log' =
         Append(execution_log,
                Entry(PhaseName[ppc],
                      IF ppc' = "fail_summary" THEN "failed" ELSE "success"))
    ]_vars

\* C20 as stated: two runs never write their summaries under the same run
\* identifier.
C20_SummariesKeyedPerRun ==
  \A r1, r2 \in DOMAIN summaryOf :
     r1 # r2 => summaryOf[r1] # summaryOf[r2]

(***************************************************************************)
(* The validator: what each check measures and reports, and the summary    *)
(* (ValidatorSpec).                                                        *)
(***************************************************************************)
\* the results of a family in the list of the latest validate_all call
Of(family) ==
  {i \in 1..Len(v_results) : Family(v_results[i]) = family}

\* C21: the row_count result passes exactly when the dataset has at least
\* min_rows rows, so that a dataset of exactly min_rows rows passes and one
\* row fewer fails, and in both outcomes its details hold the row count
\* observed and the minimum required.
C21_RowCountThreshold ==
  v_calls > 0 =>
    \A i \in Of("row_count") :
       LET required == Get(quality_config["row_count"], "min_rows", 100) IN
       /\ v_results[i].passed <=> Len(v_data.rows) >= required
       /\ v_results[i].details
            = [row_count |-> Len(v_data.rows), min_required |-> required]

\* a dataset of exactly min_rows rows passed
C21_Witness ==
  /\ Len(v_data.rows) = min_rows
  /\ \E i \in Of("row_count") :
       v_results[i].passed /\ v_results[i].details.min_required = min_rows

\* the nulls of a column of the dataset validated last
Nulls(c) == {k \in 1..Len(v_data.rows) : Col(v_data, c)[k] = NaN}

\* the configured critical columns that the dataset validated last holds
\* and whose nulls are more than max_null_percentage percent of its rows
Offending ==
  LET limit == Get(quality_config["null_checks"], "max_null_percentage", 5)
  IN {c \in Values(critical_columns) \cap v_data.columns :
        /\ Len(v_data.rows) > 0
        /\ Cardinality(Nulls(c)) * 100 > limit * Len(v_data.rows)}

\* C22: the null_values result passes exactly when no configured critical
\* column that the dataset holds has strictly more than max_null_percentage
\* percent of nulls, a configured column the dataset lacks being skipped;
\* when it fails its details list the offending columns, and only them,
\* each with its number of nulls.
C22_NullThreshold ==
  v_calls > 0 =>
    \A i \in Of("null_values") :
       /\ v_results[i].passed <=> Offending = {}
       /\ ~v_results[i].passed =>
            Values(v_results[i].details.issues)
              = {[column |-> c, null_count |-> Cardinality(Nulls(c))] :
                   c \in Offending}

\* of two critical columns that the dataset holds, one alone was reported
C22_Witness ==
  /\ Values(critical_columns) \subseteq v_data.columns
  /\ Len(critical_columns) = 2
  /\ \E i \in Of("null_values") :
       ~v_results[i].passed /\ Len(v_results[i].details.issues) = 1

\* the rows of the dataset validated last, by their positions, that share
\* their values on the keys with another row
Grouped(keys) ==
  {a \in 1..Len(v_data.rows) :
     \E b \in 1..Len(v_data.rows) :
        a # b /\ \A c \in keys : Col(v_data, c)[a] = Col(v_data, c)[b]}

\* C23: when usable key columns exist the duplicates result passes exactly
\* when no two rows hold the same values on all of them; duplicate_count is
\* the number of rows that belong to a group of equal keys, every member
\* counted, and on failure at most 5 of these rows are given as samples.
C23_DuplicatesCounted ==
  v_calls > 0 =>
    \A i \in Of("duplicates") :
       v_results[i].checked =>
         LET d == v_results[i].details
             grouped == Grouped(d.key_columns)
         IN /\ v_results[i].passed <=> grouped = {}
            /\ d.duplicate_count = Cardinality(grouped)
            /\ ~v_results[i].passed =>
                 /\ Len(d.sample_duplicates) <= 5
                 /\ Values(d.sample_duplicates) \subseteq grouped

\* more than 5 rows were duplicates and 5 of them were given
C23_Witness ==
  \E i \in Of("duplicates") :
     /\ v_results[i].checked /\ ~v_results[i].passed
     /\ v_results[i].details.duplicate_count > 5
     /\ Len(v_results[i].details.sample_duplicates) = 5

\* the results of the relationships that were compared with their parent
Compared ==
  {i \in Of("referential_integrity") :
     Len(v_results[i].check_name) = 2 /\ v_results[i].checked}

\* the orphaned keys of a compared result: the values of the foreign key
\* of the child that are not null, less those of the primary key of the
\* parent that are not null
Orphaned(r) ==
  LET parent == r.check_name[2]
      pk == Get(Get(data_sources, parent, <<>>), "primary_key",
                r.details.foreign_key)
  IN (Values(Col(v_data, r.details.foreign_key)) \ {NaN})
       \ (Values(Col(v_reference[parent], pk)) \ {NaN})

\* C24: for a relationship that is compared the result passes exactly
\* when the set of orphaned keys is empty, orphaned_count is the size of
\* that set and on failure at most 10 of its members are given as samples.
C24_OrphanedKeys ==
  v_calls > 0 =>
    \A i \in Compared :
       /\ v_results[i].passed <=> Orphaned(v_results[i]) = {}
       /\ v_results[i].details.orphaned_count
            = Cardinality(Orphaned(v_results[i]))
       /\ ~v_results[i].passed =>
            /\ Cardinality(v_results[i].details.sample_orphaned_keys) <= 10
            /\ v_results[i].details.sample_orphaned_keys
                 \subseteq Orphaned(v_results[i])

\* more than 10 keys were orphaned and 10 of them were given
C24_Witness ==
  \E i \in Compared :
     /\ v_results[i].details.orphaned_count > 10
     /\ Cardinality(v_results[i].details.sample_orphaned_keys) = 10

\* the counts of the summary returned are those of the list
CountsOfList(sm) ==
  /\ sm.total_checks = Len(v_results)
  /\ sm.passed + sm.failed = sm.total_checks
  /\ sm.passed = Cardinality({i \in 1..Len(v_results) : v_results[i].passed})

\* C25 as stated: the summary counts the results of the list, passed and
\* failed add up to the total, and success_rate, here in hundredths of a
\* percent, is passed / total_checks * 100, and 0 for an empty list.
C25_AsStated ==
  v_summary # <<>> =>
    LET sm == v_summary[1] IN
    /\ CountsOfList(sm)
    /\ IF sm.total_checks = 0 THEN sm.success_rate = 0
       ELSE sm.success_rate * sm.total_checks = sm.passed * 10000

\* C25: the summary counts the results of the list, passed and failed add
\* up to the total, and success_rate is passed / total_checks * 100
\* rounded to two decimal places, and 0 for an empty list.
C25_SummaryCounts ==
  v_summary # <<>> =>
    LET sm == v_summary[1]
        off == sm.success_rate * sm.total_checks - sm.passed * 10000
    IN /\ CountsOfList(sm)
       /\ IF sm.total_checks = 0 THEN sm.success_rate = 0
          ELSE 2 * off <= sm.total_checks /\ -2 * off <= sm.total_checks

\* a summary of a list whose rate has more than two decimal places
C25_Witness ==
  /\ v_summary # <<>>
  /\ v_summary[1].total_checks > 0
  /\ (v_summary[1].passed * 10000) % v_summary[1].total_checks # 0

(***************************************************************************)
(* Alerts of the scheduled jobs (SchedulerSpec) and the reference data of  *)
(* the validation phase (PipelineSpec).                                    *)
(***************************************************************************)
\* the sources validated in the run with at least one failed check
FailedInRun ==
  {s \in Values(p_sources) \cap DOMAIN validation_results :
     /\ s \in DOMAIN extracted_data
     /\ extracted_data[s].rows # <<>>
     /\ validation_results[s].failed > 0}

\* C26 as stated: when the daily job ends after a run that returned, an
\* alert quality_check_failure has been sent for every source with at
\* least one failed validation check in the run, and when the run raised
\* an alert extraction_failure has been sent.
C26_AlertsSent ==
  [][(job = "daily" /\ job' = "none") =>
       IF status = "success"
       THEN \A s \in FailedInRun :
               [type |-> "quality_check_failure", source |-> s] \in alerts'
       ELSE [type |-> "extraction_failure", source |-> ""] \in alerts']_vars

\* the datasets of the run that hold rows
Validated_in_run ==
  {s \in DOMAIN extracted_data : extracted_data[s].rows # <<>>}

\* C27 as stated: after the validation phase of a run, a child that was
\* validated has no failed referential_integrity result for a parent whose
\* dataset is absent from the run or holds no rows.
C27_AbsentParentNotChecked ==
  (ppc \in {"transform", "fail_summary"}
     /\ LastLogged(RunLog, "validation", "success")) =>
    \A k \in 1..Len(relationships) :
       LET rel == relationships[k]
           out == validate_all(extracted_data[rel.child], rel.child,
                               ReferenceData(extracted_data)).results
       IN (rel.child \in Validated_in_run
             /\ rel.parent \notin Validated_in_run) =>
            \A i \in 1..Len(out) :
               out[i].check_name = <<"referential_integrity", rel.parent>>
                 => out[i].passed

(***************************************************************************)
(* The date range and the query of extract_data (Spec), and the two ways   *)
(* of extract_all_sources (PipelineSpec).                                  *)
(***************************************************************************)
\* the body of extract_data runs up to the batch loop
BodyResolved == pc = "body" /\ pc' = "loop"

\* the first instant of a day
Midnight(day) == [sec |-> day * SecondsPerDay, micro |-> 0]

\* C28 as stated: with incremental true and no start_date the start of the
\* window is the instant of the checkpoint of the source, or the current
\* instant less 30 days when there is none; a start_date that is given is
\* kept; an end_date that is not given is the current instant.
C28_AsStated ==
  [][BodyResolved =>
       /\ (incremental' /\ start_arg = NoDate) =>
            Midnight(start_date'[1])
              = IF source \in DOMAIN checkpoints
                THEN fromisoformat(checkpoints[source])
                ELSE [sec |-> now.sec - 30 * SecondsPerDay,
                      micro |-> now.micro]
       /\ start_arg # NoDate => start_date' = start_arg
       /\ end_arg = NoDate => Midnight(end_date'[1]) = now
       /\ end_arg # NoDate => end_date' = end_arg]_vars

\* C28: with incremental true and no start_date the start of the window is
\* the day of the checkpoint of the source, or the current day less 30 days
\* when there is none; a start_date that is given is kept, checkpoint or
\* not; an end_date that is not given is the current day.
C28_DateWindow ==
  [][BodyResolved =>
       /\ (incremental' /\ start_arg = NoDate) =>
            start_date'
              = IF source \in DOMAIN checkpoints
                THEN <<strftime_date(fromisoformat(checkpoints[source]))>>
                ELSE <<strftime_date(now) - 30>>
       /\ start_arg # NoDate => start_date' = start_arg
       /\ end_arg = NoDate => end_date' = <<strftime_date(now)>>
       /\ end_arg # NoDate => end_date' = end_arg]_vars

\* the window of an incremental call started on the day of a checkpoint
\* that was taken after the first instant of that day
C28_Witness ==
  /\ pc = "loop" /\ incremental /\ start_arg = NoDate
  /\ source \in DOMAIN checkpoints
  /\ start_date = <<strftime_date(fromisoformat(checkpoints[source]))>>
  /\ Midnight(start_date[1]) # fromisoformat(checkpoints[source])

\* the body of extract_data runs once
BodyStep == pc = "body" /\ bodyRuns' = bodyRuns + 1

\* C29: the incremental query is used exactly when incremental is true and
\* the template of the source defines one; otherwise the full query when
\* defined, otherwise the generic query; when the template gives none of
\* them the call fails on its configuration and fetches no page.
C29_QuerySelection ==
  [][/\ (BodyStep /\ source \in DOMAIN data_sources
                  /\ source \in DOMAIN queries) =>
          LET tmpl == queries[source]
              incr == IF inc_arg = "None"
                      THEN data_sources[source].incremental
                             /\ incremental_enabled
                      ELSE inc_arg = "True"
              chosen ==
                IF incr /\ "incremental_query" \in tmpl
                THEN "incremental_query"
                ELSE IF "full_query" \in tmpl THEN "full_query"
                ELSE IF "query" \in tmpl THEN "query"
                ELSE ""
          IN /\ chosen # "" => pc' = "loop" /\ query' = chosen
             /\ query' = "incremental_query"
                  <=> (incr /\ "incremental_query" \in tmpl)
             /\ chosen = "" =>
                  /\ pc' \in {"body", "raised"}
                  /\ lastExc'.kind = "no_query"
     /\ lastExc'.kind = "no_query" => fetched' = <<>>]_vars

\* an incremental call on a template without an incremental query used the
\* full query
C29_Witness ==
  /\ pc = "loop" /\ incremental
  /\ "incremental_query" \notin queries[source]
  /\ query = "full_query"

\* extract_all_sources takes up the next source, a configured one
TakesUp ==
  /\ ppc = "extract" /\ todo # <<>>
  /\ Head(todo) \in DOMAIN data_sources
  /\ todo' # todo \/ ppc' # ppc

\* C30: extract_all_sources settles a source configured as non-incremental
\* in one step, the single query of extract_reference_data, without
\* entering extract_data or its batch loop, whatever the incremental
\* argument of the run; a source configured as incremental enters
\* extract_data, and only such a source does.
C30_ReferenceUnpaged ==
  [][/\ TakesUp =>
          IF data_sources[Head(todo)].incremental
          THEN /\ ppc' = "extract_wait" /\ pc' = "body"
               /\ source' = Head(todo) /\ todo' = todo
          ELSE /\ ppc' = "extract" /\ todo' = Tail(todo)
               /\ Head(todo) \in DOMAIN results'
               /\ pc' = pc /\ bodyRuns' = bodyRuns /\ fetched' = fetched
     /\ ppc' = "extract_wait" => data_sources[Head(todo')].incremental]_vars

\* in a run with incremental true the reference source was read by its
\* single query and the incremental source by the batch loop
C30_Witness ==
  /\ p_incremental /\ ppc = "extract"
  /\ "ref" \in DOMAIN results /\ results["ref"].rows # <<>>
  /\ "fact1" \in DOMAIN results /\ results["fact1"].rows # <<>>

(***************************************************************************)
(* The validator: keys of the duplicate check, shape of the referential    *)
(* integrity results, checks that were not performed, and the list of one  *)
(* call (ValidatorSpec).                                                   *)
(***************************************************************************)
\* the usable key columns of the dataset validated last: the declared
\* primary key of the source when the dataset holds it, otherwise the
\* configured key columns that the dataset holds
UsableKeys ==
  LET pk == Get(Get(data_sources, v_source, <<>>), "primary_key", "")
      generic == Get(quality_config["duplicate_checks"], "key_columns", <<>>)
  IN IF pk \in v_data.columns THEN {pk}
     ELSE Values(generic) \cap v_data.columns

\* C31: the duplicates check compares on the primary key of the source
\* when the dataset holds that column, otherwise on the configured key
\* columns that the dataset holds; with no usable key column it passes
\* with checked = false, which no result of a comparison carries.
C31_KeySelection ==
  v_calls > 0 =>
    \A i \in Of("duplicates") :
       IF UsableKeys = {}
       THEN v_results[i].passed /\ ~v_results[i].checked
       ELSE /\ v_results[i].checked
            /\ v_results[i].details.key_columns = UsableKeys

\* a dataset with column id, of a source without a primary key, held none
\* of the configured key columns: the check passed unchecked
C31_Witness ==
  /\ "id" \in v_data.columns
  /\ \E i \in Of("duplicates") :
       v_results[i].passed /\ ~v_results[i].checked

\* the configured relationships whose child is the source validated last
MyRelationships ==
  LET mine(rel) == rel.child = v_source IN
  SelectSeq(Get(quality_config["referential_integrity"], "relationships",
                <<>>), mine)

\* the referential integrity results of the latest call, in their order
IntegrityResults ==
  LET integrity(r) == Family(r) = "referential_integrity" IN
  SelectSeq(v_results, integrity)

\* C32: when the referential integrity check runs for a source that is
\* the child of k >= 1 configured relationships it emits k results, one
\* for each relationship in the order of the configuration, and the result
\* of a relationship whose parent is not in reference_data or whose
\* foreign key is not a column of the child passes with checked = false;
\* for a source that is the child of none it emits the single passing
\* result named referential_integrity.
C32_IntegrityShape ==
  (Validated /\ Runs("referential_integrity", v_reference)) =>
    IF MyRelationships = <<>>
    THEN /\ Len(IntegrityResults) = 1
         /\ IntegrityResults[1].check_name = <<"referential_integrity">>
         /\ IntegrityResults[1].passed
    ELSE /\ Len(IntegrityResults) = Len(MyRelationships)
         /\ \A j \in 1..Len(MyRelationships) :
              LET rel == MyRelationships[j]
                  r == IntegrityResults[j]
              IN /\ r.check_name = <<"referential_integrity", rel.parent>>
                 /\ (rel.parent \notin DOMAIN v_reference
                       \/ rel.foreign_key \notin v_data.columns)
                      => r.passed /\ ~r.checked

\* of two relationships of the child one was compared and the one whose
\* parent was not provided passed unchecked
C32_Witness ==
  /\ Validated /\ Runs("referential_integrity", v_reference)
  /\ Len(MyRelationships) = 2
  /\ Len(IntegrityResults) = 2
  /\ IntegrityResults[1].checked
  /\ MyRelationships[2].parent \notin DOMAIN v_reference
  /\ ~IntegrityResults[2].checked

\* C34 as stated: every result of the list whose details carry checked =
\* false has passed = true.
C34_UncheckedPasses ==
  v_calls > 0 =>
    \A i \in 1..Len(v_results) :
       ~v_results[i].checked => v_results[i].passed

\* C36: after a validate_all call the list of the validator is the list of
\* that call, and what get_validation_summary and has_critical_failures
\* return is computed from the results of that call alone, whatever the
\* list held before.
C36_ListOfLatestCall ==
  v_calls > 0 =>
    /\ v_results = LatestResults
    /\ v_summary # <<>> =>
         /\ v_summary[1].total_checks = Len(LatestResults)
         /\ v_summary[1].failed
              = Cardinality({i \in 1..Len(LatestResults) :
                               ~LatestResults[i].passed})
    /\ v_critical # "none" =>
         (v_critical = "True" <=>
            \E i \in 1..Len(LatestResults) :
               /\ ~LatestResults[i].passed
               /\ Family(LatestResults[i])
                    \in {"row_count", "null_values",
                         "referential_integrity"})

\* the list held a critical failure when the second call began, and the
\* summary of the second call has no failure and no critical failure
C36_Witness ==
  /\ v_calls = 2 /\ v_prior
  /\ v_summary # <<>> /\ v_summary[1].failed = 0
  /\ v_critical = "False"

(***************************************************************************)
(* Extractions that are not incremental (PipelineSpec).                    *)
(***************************************************************************)
\* extract_all_sources sends the source at the head of the list through
\* extract_reference_data
ReferenceStep ==
  /\ ppc = "extract" /\ todo # <<>> /\ todo' = Tail(todo)
  /\ Head(todo) \in DOMAIN data_sources
  /\ ~data_sources[Head(todo)].incremental

\* an extract_data call with incremental = False is running or has ended
FullCall == inc_arg = "False" /\ pc \notin {"idle", "crashed", "init_failed"}

\* C38: an extraction that is not incremental - extract_data called with
\* incremental = False, and extract_reference_data - leaves the checkpoints
\* in memory and the checkpoint file as they were, for every source and
\* whether it returns rows, returns none or raises.
C38_FullExtractionKeepsCheckpoints ==
  /\ [](FullCall => checkpoints = cp0 /\ file = file0)
  /\ [][ReferenceStep => checkpoints' = checkpoints /\ file' = file]_vars

\* extract_data with incremental = False returned rows of a source that
\* is configured incremental, and the checkpoints are those of before
C38_Witness ==
  /\ pc = "returned" /\ inc_arg = "False"
  /\ source \in DOMAIN data_sources /\ data_sources[source].incremental
  /\ result.rows # <<>>
  /\ checkpoints = cp0 /\ file = file0

(***************************************************************************)
(* The reference data of run_validation and the datasets without rows      *)
(* (PipelineSpec).                                                         *)
(***************************************************************************)
\* the datasets of the run whose source is configured, and not incremental
ConfiguredReference ==
  {s \in DOMAIN extracted_data :
     s \in DOMAIN data_sources /\ ~data_sources[s].incremental}

\* the datasets of the run whose source is not configured incremental
NotIncremental ==
  {s \in DOMAIN extracted_data :
     ~(s \in DOMAIN data_sources /\ data_sources[s].incremental)}

\* C33 as stated: every validate_all call of run_validation is handed
\* exactly the datasets of the run whose source is configured as
\* non-incremental.
C33_AsStated ==
  \A i \in 1..Len(handed) :
     handed[i].reference_data
       = [s \in ConfiguredReference |-> extracted_data[s]]

\* C33: every validate_all call of run_validation is handed exactly the
\* datasets of the run whose source is not configured as incremental (a
\* source without configuration included); no dataset of an incremental
\* source is in the pool, and every source validated in the run is handed
\* the same pool.
C33_ReferencePool ==
  /\ \A i \in 1..Len(handed) :
       /\ handed[i].reference_data
            = [s \in NotIncremental |-> extracted_data[s]]
       /\ \A s \in DOMAIN handed[i].reference_data :
            ~(s \in DOMAIN data_sources /\ data_sources[s].incremental)
  /\ \A i, j \in 1..Len(handed) :
       handed[i].reference_data = handed[j].reference_data

\* two sources were validated in the run, a fact source and a reference
\* source, with the dataset of the reference source alone as the pool
C33_Witness ==
  /\ Len(handed) = 2
  /\ {handed[1].source, handed[2].source} = {"fact1", "ref"}
  /\ DOMAIN handed[1].reference_data = {"ref"}
  /\ handed[1].reference_data = handed[2].reference_data

\* the datasets of the run that hold no rows
EmptyInRun ==
  {s \in DOMAIN extracted_data : extracted_data[s].rows = <<>>}

\* C35: a source whose dataset holds no rows is never validated: no
\* validate_all call is made for it, no step of the run adds or changes
\* its entry of the validation results, a validation phase that halts has
\* halted on the results of a source that holds rows, and the source is
\* not among the output paths of the load phase.
C35_EmptyNeverValidated ==
  /\ [](\A i \in 1..Len(handed) : handed[i].source \notin EmptyInRun)
  /\ [][\A s \in DOMAIN validation_results' :
          (s \notin DOMAIN validation_results
             \/ validation_results'[s] # validation_results[s])
            => s \in DOMAIN extracted_data /\ s \notin EmptyInRun]_vars
  /\ []((ppc = "fail_summary"
          /\ LastLogged(RunLog, "validation", "failed")) =>
         /\ handed # <<>>
         /\ LET c == handed[Len(handed)]
                out == validate_all(extracted_data[c.source], c.source,
                                    c.reference_data)
            IN /\ c.source \notin EmptyInRun
               /\ out.raised \/ has_critical_failures(out.results))
  /\ [](output_paths \cap EmptyInRun = {})

\* a run with stop_on_validation_failure set and min_rows > 0 reached its
\* summary: the source without rows has no validation entry and no
\* output path, the source with rows has both
C35_Witness ==
  /\ ppc = "summary" /\ p_stop /\ min_rows > 0
  /\ EmptyInRun # {} /\ handed # <<>> /\ output_paths # {}
  /\ EmptyInRun \cap DOMAIN validation_results = {}
  /\ DOMAIN validation_results = output_paths

(***************************************************************************)
(* Runs repeated on one pipeline (SchedulerSpec).                          *)
(***************************************************************************)
\* the sources the validation phase of the run validated
ValidatedByRun == {handed[i].source : i \in 1..Len(handed)}

\* C37 as stated: the summary a run writes holds the entries that run
\* appended to the execution log and no others, and the summary of a
\* successful run holds validation results of the sources validated in
\* that run only.
C37_SummaryOfRunOnly ==
  [][(ppc # "p_idle" /\ ppc' = "p_idle" /\ summaries' # summaries) =>
       LET summary == summaries'[run_id] IN
       /\ summary.execution_log = RunLog'
       /\ summary.status = "success" =>
            DOMAIN summary.validation_summary \subseteq ValidatedByRun
    ]_vars

(***************************************************************************)
(* Two extractors on one checkpoint file (ConcurrentSpec).                 *)
(***************************************************************************)
\* C39 as stated: while the steps of two extractors on one checkpoint file
\* interleave without a lock, every checkpoint the file holds stays in the
\* file, and its value never goes back in time.
C39_FileConsistent ==
  [][\A s \in DOMAIN committed :
       /\ s \in DOMAIN committed'
       /\ DtLeq(fromisoformat(committed[s]), fromisoformat(committed'[s]))
    ]_vars

====
